---- MODULE Spec2Model ----
(***************************************************************************)
(* Model of the change-notification core of the "dynamic" reflection       *)
(* library (dynamic.hpp / dynamic.tpp / dynamic.cpp).                      *)
(*                                                                         *)
(* The object graph under study is one Record A with the fields            *)
(*     B   : a nested Record with the scalar fields C (int32_t) and        *)
(*           F (float)                                                     *)
(*     arr : an Array<T>                                                   *)
(*     map : a Map<T>, of the same T                                       *)
(* Every write is a call of Fundamental<T>::set / mutate; the call stack   *)
(* of the single thread is explicit, so that listeners can be observed     *)
(* while they run and can write to the graph themselves.                   *)
(*                                                                         *)
(* float values are counted in units of numeric_limits<float>::epsilon().  *)
(***************************************************************************)
EXTENDS Integers, Sequences, FiniteSets, TLC

\* ---- bounds of the model ------------------------------------------------
MaxVal == 2
MaxListeners == 2
MaxDepth == 3
MaxLen == 2
MaxEntries == 3
MaxPath == 2
MaxSegment == 2
MaxString == 4
MaxCalls == 4

\* std::numeric_limits<T>::epsilon(), the unit in which floats are counted
Epsilon == 1

Val == 0..MaxVal
Keys == {"a", "b"}
MapKeys == {"a", "b", "c"}

VARIABLES
    underlying,                 \* Fundamental<T>::underlying of the cells C and F
    elements,                   \* Array<T>::elements: the values, in order
    elemType,                   \* the T of Array<T> and Map<T>: "int32_t" or "float"
    mapElements,                \* Map<T>::elements: [fieldName, v] in order
    valueListeners,             \* Fundamental<T>::valueListeners of C, F and B
    childListeners,             \* Object::childListeners of A, B, arr and map
    arrayListeners,             \* Array<T>::arrayListeners
    mapListeners,               \* Map<T>::mapListeners
    recursiveListenerDisabler,  \* Value::recursiveListenerDisabler
    stack,                      \* the calls in progress, outermost first
    log,                        \* what the current top-level call delivered
    op,                         \* the current (or last) top-level call
    overflow,                   \* the recursion went past MaxDepth
    original                    \* whether the graph is a copy, and the listener
                                \* lists of the graph it was copied from; the
                                \* objects beside the graph: the elements of a
                                \* second array and map (other), the MetaType
                                \* descriptors and the instances constructed

vars == <<underlying, elements, elemType, mapElements, valueListeners,
          childListeners, arrayListeners, mapListeners,
          recursiveListenerDisabler, stack, log, op, overflow, original>>

store == <<underlying, elements, mapElements>>
listenerLists == <<valueListeners, childListeners, arrayListeners, mapListeners>>

\* ---- the object graph ---------------------------------------------------
\* A node is [obj, pos]: pos = 0 is the object itself, pos = i+1 is the
\* element at index i of the container obj.
Node(o) == [obj |-> o, pos |-> 0]
Element(o, i) == [obj |-> o, pos |-> i + 1]

Cells == {"C", "F"}
Records == {"A", "B"}
Containers == {"arr", "map"}
Objects == Records \cup Containers

\* Record<T>::init and Element::init: the parent back-reference
Parent(n) ==
    IF n.pos > 0 THEN n.obj
    ELSE CASE n.obj \in {"C", "F"} -> "B"
           [] n.obj \in {"B", "arr", "map"} -> "A"
           [] OTHER -> "null"

\* the fields of the records, in declaration order
FieldNames(o) ==
    CASE o = "A" -> <<"B", "arr", "map">>
      [] o = "B" -> <<"C", "F">>
      [] OTHER -> <<>>

Digit == <<"0", "1", "2", "3", "4", "5", "6", "7", "8", "9">>

RECURSIVE to_string(_)
\* std::to_string of a non-negative index
to_string(n) ==
    IF n < 10 THEN Digit[n + 1]
    ELSE to_string(n \div 10) \o Digit[(n % 10) + 1]

\* Field::name, Array::Element::name, Map::Element::name
name(n) ==
    IF n.pos = 0 THEN n.obj
    ELSE IF n.obj = "arr" THEN to_string(n.pos - 1)
    ELSE mapElements[n.pos].fieldName

\* typeid of the value a node holds
type(n) ==
    IF n.pos > 0 THEN elemType
    ELSE CASE n.obj = "C" -> "int32_t"
           [] n.obj = "F" -> "float"
           [] OTHER -> n.obj

\* the value a node holds now (operator()() of the cell)
Stored(n) ==
    IF n.pos > 0 THEN
        (IF n.obj = "arr" THEN elements[n.pos] ELSE mapElements[n.pos].v)
    ELSE CASE n.obj \in Cells -> underlying[n.obj]
           [] n.obj = "B" -> [C |-> underlying["C"], F |-> underlying["F"]]
           [] n.obj = "arr" -> elements
           [] n.obj = "map" -> mapElements
           [] OTHER -> 0

Abs(x) == IF x < 0 THEN -x ELSE x

\* ---- Fundamental<T>::set / mutate: the unchanged check --------------------
\* set(T const&): epsilon comparison for float and double, == otherwise
SetSkips(ty, old, new) ==
    IF ty \in {"float", "double"} THEN Abs(old - new) <= Epsilon
    ELSE old = new

\* the three bodies that write: set(T const&), set(T&&) and mutate
Unchanged(how, ty, old, new) ==
    CASE how = "set_cref" -> SetSkips(ty, old, new)
      [] how = "set_rref" -> FALSE
      [] how = "mutate" -> old = new

\* the public entry points and the body each of them runs
EntryKinds ==
    {"set_cref", "set_rref", "assignT", "copyAssign", "moveAssign",
     "mutate", "assign", "visit"}

EntryPath(kind) ==
    CASE kind = "set_cref" -> "set_cref"
      [] kind = "set_rref" -> "set_rref"
      [] kind = "assignT" -> "set_cref"
      [] kind = "copyAssign" -> "set_cref"
      [] kind = "moveAssign" -> "set_rref"
      [] kind = "mutate" -> "mutate"
      [] kind = "assign" -> "set_cref"
      [] kind = "visit" -> "set_cref"

\* a scope that ends without calling its lambda
callAtEndOfScopeNever(d) == d

\* ~ScopedReleaser of the raiiDecrementer: the lambda
\* --Value::recursiveListenerDisabler runs when the scope is left
callAtEndOfScope(d) == d - 1

\* a set that calls callListeners whatever the guard says
ShouldNotifyAlways(d) == TRUE

\* a set that never calls callListeners
ShouldNotifyNever(d) == FALSE

\* if (Value::recursiveListenerDisabler == 0) callListeners(newValue);
ShouldNotify(d) == d = 0

\* ---- listeners ------------------------------------------------------------
\* What a registered callback does when it is invoked:
\*   obs    reads the cell and returns
\*   bump   writes a value that differs from the stored one to the cell it
\*          is notified about
\*   clamp  when the new value is MaxVal, writes MaxVal - 1 to that cell
\*   other  writes a value that differs from the stored one to the other
\*          scalar cell
Behaviours == {"obs", "bump", "clamp", "other"}

NoListeners ==
    /\ valueListeners = [o \in {"C", "F", "B"} |-> <<>>]
    /\ childListeners = [o \in Objects |-> <<>>]
    /\ arrayListeners = <<>>
    /\ mapListeners = <<>>

Registered ==
    Len(valueListeners["C"]) + Len(valueListeners["F"]) + Len(valueListeners["B"])
    + Len(childListeners["A"]) + Len(childListeners["B"])
    + Len(childListeners["arr"]) + Len(childListeners["map"])
    + Len(arrayListeners) + Len(mapListeners)

\* ---- the notification chain -----------------------------------------------
RECURSIVE callChildListenersSamePath(_, _)
\* a callChildListeners that hands its own path on to the parent
callChildListenersSamePath(o, id) ==
    <<[kind |-> "child", at |-> o, path |-> id]>>
    \o (IF Parent(Node(o)) /= "null"
        THEN callChildListenersSamePath(Parent(Node(o)), id)
        ELSE <<>>)

RECURSIVE callChildListeners(_, _)
\* Object::callChildListeners: this object's child listeners with the path
\* it was given, then the parent's with this object's name prepended
callChildListeners(o, id) ==
    <<[kind |-> "child", at |-> o, path |-> id]>>
    \o (IF Parent(Node(o)) /= "null"
        THEN callChildListeners(Parent(Node(o)), <<name(Node(o))>> \o id)
        ELSE <<>>)

\* a callListeners that goes up to the ancestors before it invokes the value
\* listeners of the cell
callListenersParentFirst(n) ==
    (IF Parent(n) /= "null"
     THEN callChildListeners(Parent(n), <<name(n)>>)
     ELSE <<>>)
    \o <<[kind |-> "value", at |-> n.obj, path |-> <<>>]>>

\* Fundamental<T>::callListeners: the value listeners, then the parent's
\* callChildListeners with the one-segment path name()
callListeners(n) ==
    <<[kind |-> "value", at |-> n.obj, path |-> <<>>]>>
    \o (IF Parent(n) /= "null"
        THEN callChildListeners(Parent(n), <<name(n)>>)
        ELSE <<>>)

\* a callListeners of the containers that leaves out the child listeners
containerCallListenersOwnOnly(o, key) ==
    <<[kind |-> IF o = "arr" THEN "array" ELSE "map", at |-> o, path |-> <<>>]>>

\* Array<T>::callListeners and Map<T>::callListeners: the container's own
\* listeners, then callChildListeners on the container itself
containerCallListeners(o, key) ==
    <<[kind |-> IF o = "arr" THEN "array" ELSE "map", at |-> o, path |-> <<>>]>>
    \o callChildListeners(o, <<key>>)

\* ListenerPair::expired: the weak context of the entry has expired; the
\* entry of a listener whose owner is gone is written "expired"
expired(e) == e = "expired"

\* a list from which nothing is erased
Kept(l) == l

\* erase(remove_if(..., expired)) at the head of callListeners and
\* callChildListeners
Erased(l) == LET alive(e) == ~expired(e) IN SelectSeq(l, alive)

\* the listener list a stop of the chain iterates over
ListenersAt(stop, n) ==
    CASE stop.kind = "value" ->
             (IF n.pos = 0 /\ n.obj \in DOMAIN valueListeners
              THEN Erased(valueListeners[n.obj]) ELSE <<>>)
      [] stop.kind = "child" -> Erased(childListeners[stop.at])
      [] stop.kind = "array" -> Erased(arrayListeners)
      [] stop.kind = "map" -> Erased(mapListeners)

\* a chain that hands the root to the child listeners
OriginRoot(f) == "A"

\* the object handed to the child listeners as parentOfChangedValue
Origin(f) == IF f.call = "set" THEN Parent(f.node) ELSE f.node.obj

Chain(f) ==
    IF f.call = "set" THEN callListeners(f.node)
    ELSE containerCallListeners(f.node.obj, f.key)

RECURSIVE Seek(_, _, _, _)
\* the next listener to invoke at or after position li of stop si
Seek(chain, n, si, li) ==
    IF si > Len(chain) THEN [si |-> 0, li |-> 0]
    ELSE IF li <= Len(ListenersAt(chain[si], n))
    THEN (IF expired(ListenersAt(chain[si], n)[li])    \* invoke: context.lock()
          THEN Seek(chain, n, si, li + 1)
          ELSE [si |-> si, li |-> li])
    ELSE Seek(chain, n, si + 1, 1)

\* ---- the call stack --------------------------------------------------------
\* a call entered when the log holds `start` events
Frame(call, n, new, how, opn, key, idx, notify, start) ==
    LET f0 == [call |-> call, node |-> n, new |-> new, how |-> how,
               old |-> Stored(n), opn |-> opn, key |-> key, idx |-> idx,
               phase |-> "commit", si |-> 0, li |-> 0, k |-> 0, arg |-> 0,
               start |-> start, notify |-> notify,
               snap |-> <<underlying, elements, mapElements>>]
        first == Seek(Chain(f0), n, 1, 1)
    IN IF notify /\ first.si > 0
       THEN [f0 EXCEPT !.phase = "notify", !.si = first.si, !.li = first.li]
       ELSE f0

\* a call that goes one level deeper than the model follows is cut off
Enter(stk, f) ==
    IF Len(stk) >= MaxDepth THEN [stack |-> stk, overflow |-> TRUE]
    ELSE [stack |-> Append(stk, f), overflow |-> FALSE]

Return(stk) == [stack |-> stk, overflow |-> FALSE]

\* Fundamental<T>::set(T const&), set(T&&) and mutate up to the store: the
\* unchanged check, then callListeners if the guard is at 0
set(stk, n, new, how, start) ==
    IF Unchanged(how, type(n), Stored(n), new) THEN Return(stk)
    ELSE Enter(stk, Frame("set", n, new, how, "modify", "", 0,
                          ShouldNotify(recursiveListenerDisabler), start))

\* how many stops of its chain the call f has begun to notify
Reached(f) ==
    IF ~f.notify THEN 0
    ELSE IF f.phase = "notify" THEN f.si
    ELSE Len(Chain(f))

\* the lists the calls in progress have begun to notify
Swept(stk) ==
    UNION {{<<Chain(stk[d])[i].kind, Chain(stk[d])[i].at>> :
               i \in 1..Reached(stk[d])} : d \in DOMAIN stk}

\* the lists after the step: those a call has begun to notify have lost
\* their expired entries
eraseExpired ==
    /\ valueListeners' = [o \in DOMAIN valueListeners |->
            IF <<"value", o>> \in Swept(stack')
            THEN Erased(valueListeners[o]) ELSE valueListeners[o]]
    /\ childListeners' = [o \in DOMAIN childListeners |->
            IF <<"child", o>> \in Swept(stack')
            THEN Erased(childListeners[o]) ELSE childListeners[o]]
    /\ arrayListeners' = IF <<"array", "arr">> \in Swept(stack')
                         THEN Erased(arrayListeners) ELSE arrayListeners
    /\ mapListeners' = IF <<"map", "map">> \in Swept(stack')
                       THEN Erased(mapListeners) ELSE mapListeners

Top == stack[Len(stack)]
Below == SubSeq(stack, 1, Len(stack) - 1)
Running == stack /= <<>> /\ ~overflow
Idle == stack = <<>> /\ ~overflow

\* ---- what a callback does --------------------------------------------------
Scalar(n) == type(n) \in {"int32_t", "float"}

\* a value that set(T const&) does not take for v
Far(v) == IF v = MaxVal THEN 0 ELSE MaxVal

\* the writes (at most one) the callback with behaviour beh makes when it is
\* invoked for the call f
Reaction(beh, f) ==
    IF f.call = "set" /\ f.node.pos = 0 /\ f.node.obj \in Cells THEN
        CASE beh = "bump" ->
                 <<[node |-> f.node, new |-> Far(Stored(f.node))]>>
          [] beh = "clamp" ->
                 (IF f.new = MaxVal
                  THEN <<[node |-> f.node, new |-> MaxVal - 1]>> ELSE <<>>)
          [] beh = "other" ->
                 (LET o == Node(IF f.node.obj = "C" THEN "F" ELSE "C")
                  IN <<[node |-> o, new |-> Far(Stored(o))]>>)
          [] OTHER -> <<>>
    ELSE <<>>

\* a notification delivered after the new value has been stored
DeliveredAfterStore(f, stop) ==
    [kind |-> stop.kind, lid |-> f.li, at |-> stop.at, opn |-> f.opn,
     path |-> stop.path, value |-> f.new, parent |-> Origin(f),
     idx |-> f.idx, key |-> f.key, node |-> f.node, old |-> f.old,
     seen |-> f.new, depth |-> Len(stack),
     guard |-> recursiveListenerDisabler, start |-> f.start]

\* one delivered notification, with what the callback can read at that moment
Delivered(f, stop) ==
    [kind |-> stop.kind, lid |-> f.li, at |-> stop.at, opn |-> f.opn,
     path |-> stop.path, value |-> f.new, parent |-> Origin(f),
     idx |-> f.idx, key |-> f.key, node |-> f.node, old |-> f.old,
     seen |-> Stored(f.node), depth |-> Len(stack),
     guard |-> recursiveListenerDisabler, start |-> f.start]

\* the store of a call, recorded for the order of events
Stores(f) ==
    [kind |-> "store", lid |-> 0, at |-> f.node.obj, opn |-> f.opn,
     path |-> <<>>, value |-> f.new, parent |-> Origin(f),
     idx |-> f.idx, key |-> f.key, node |-> f.node, old |-> f.old,
     seen |-> Stored(f.node), depth |-> Len(stack),
     guard |-> recursiveListenerDisabler, start |-> f.start]

\* ---- top-level calls ------------------------------------------------------
ValuesOf(o) == IF o = "B" THEN [C : Val, F : Val] ELSE Val

Call(nm, n, entry, w) ==
    [name |-> nm, node |-> n, entry |-> entry, w |-> w, pre |-> Stored(n),
     how |-> "", ret |-> TRUE]

\* addListener / addChildListener: the callback is appended to the list
AddListener(o, beh) ==
    /\ Idle
    /\ Registered < MaxListeners
    /\ valueListeners' = [valueListeners EXCEPT
           ![o] = Append(@, beh)]
    /\ op' = Call("addListener", Node(o), "", 0)
    /\ log' = <<>>
    /\ UNCHANGED <<store, elemType, original, childListeners, arrayListeners,
                   mapListeners, recursiveListenerDisabler, stack, overflow>>

AddChildListener(o, beh) ==
    /\ Idle
    /\ Registered < MaxListeners
    /\ childListeners' = [childListeners EXCEPT
           ![o] = Append(@, beh)]
    /\ op' = Call("addChildListener", Node(o), "", 0)
    /\ log' = <<>>
    /\ UNCHANGED <<store, elemType, original, valueListeners, arrayListeners,
                   mapListeners, recursiveListenerDisabler, stack, overflow>>

\* the bodies the entry points run
Paths == {EntryPath(kind) : kind \in EntryKinds}

\* a write to the cell C or F or to the record B through an entry point that
\* runs the body how
Write(o, w, how) ==
    /\ Idle
    /\ \E kind \in EntryKinds : EntryPath(kind) = how
    /\ LET r == set(<<>>, Node(o), w, how, 0)
       IN stack' = r.stack /\ overflow' = r.overflow
    /\ op' = Call("write", Node(o), how, w)
    /\ log' = <<>>
    /\ UNCHANGED <<store, elemType, original, recursiveListenerDisabler>>
    /\ eraseExpired

\* ---- steps of a call in progress --------------------------------------------
\* the loop over a listener list: the next callback is invoked and returns
Invoke ==
    /\ Running
    /\ Top.phase = "notify"
    /\ LET f == Top
           chain == Chain(f)
           stop == chain[f.si]
           beh == ListenersAt(stop, f.node)[f.li]
           nxt == Seek(chain, f.node, f.si, f.li + 1)
           g == IF nxt.si = 0 THEN [f EXCEPT !.phase = "commit"]
                ELSE [f EXCEPT !.si = nxt.si, !.li = nxt.li]
           stk == Append(Below, g)
           todo == Reaction(beh, f)
           r == IF todo = <<>> THEN Return(stk)
                ELSE set(stk, todo[1].node, todo[1].new, "set_cref", Len(log) + 1)
       IN /\ log' = Append(log, Delivered(f, stop))
          /\ stack' = r.stack
          /\ overflow' = r.overflow
    /\ UNCHANGED <<store, elemType, original, recursiveListenerDisabler, op>>
    /\ eraseExpired

\* underlying = newValue for a scalar: the guard is raised around the store
Commit ==
    /\ Running
    /\ Top.phase = "commit" /\ Top.call = "set" /\ Scalar(Top.node)
    /\ LET f == Top
       IN /\ underlying' = IF f.node.pos = 0
                           THEN [underlying EXCEPT ![f.node.obj] = f.new]
                           ELSE underlying
          /\ elements' = IF f.node.pos > 0 /\ f.node.obj = "arr"
                         THEN [elements EXCEPT ![f.node.pos] = f.new]
                         ELSE elements
          /\ mapElements' = IF f.node.pos > 0 /\ f.node.obj = "map"
                            THEN [mapElements EXCEPT ![f.node.pos].v = f.new]
                            ELSE mapElements
          /\ log' = Append(log, Stores(f))
    /\ stack' = Below
    /\ UNCHANGED <<elemType, original, listenerLists, recursiveListenerDisabler, op, overflow>>

\* how the implicit copy / move assignment of the struct writes each field
FieldHow(how) == IF how = "set_cref" THEN "set_cref" ELSE "set_rref"

\* underlying = newValue for a record: ++recursiveListenerDisabler, then the
\* fields are assigned one by one
CommitRecord ==
    /\ Running
    /\ Top.phase = "commit" /\ Top.call = "set" /\ ~Scalar(Top.node)
    /\ stack' = Append(Below, [Top EXCEPT !.phase = "copy", !.k = 1])
    /\ recursiveListenerDisabler' = recursiveListenerDisabler + 1
    /\ UNCHANGED <<store, elemType, original, listenerLists, log, op, overflow>>

\* one field assignment of the copy; after the last one the guard is lowered.
\* A scalar or record field is assigned with set, an array or map field with
\* Array<T>::operator= / Map<T>::operator=, which call assign on the field of
\* the new value (original.other)
CopyField ==
    /\ Running
    /\ Top.phase = "copy"
    /\ LET f == Top
           flds == FieldNames(f.node.obj)
       IN IF f.k <= Len(flds)
          THEN /\ LET stk == Append(Below, [f EXCEPT !.k = f.k + 1])
                      r == IF flds[f.k] \in Containers
                           THEN Enter(stk, Frame("assign", Node(flds[f.k]), 0,
                                                 "other", "assign", "", 0,
                                                 FALSE, Len(log)))
                           ELSE set(stk, Node(flds[f.k]), f.new[flds[f.k]],
                                    FieldHow(f.how), Len(log))
                  IN stack' = r.stack /\ overflow' = r.overflow
               /\ UNCHANGED <<log, recursiveListenerDisabler>>
          ELSE /\ stack' = Below
               /\ recursiveListenerDisabler' =
                      callAtEndOfScope(recursiveListenerDisabler)
               /\ log' = Append(log, Stores(f))
               /\ UNCHANGED overflow
    /\ UNCHANGED <<store, elemType, original, op>>
    /\ eraseExpired

\* ---- the guard around the store, step by step ----------------------------
\* ++Value::recursiveListenerDisabler of a scalar write, with the
\* raiiDecrementer in scope
RaiseGuard ==
    /\ Running
    /\ Top.phase = "commit" /\ Top.call = "set" /\ Scalar(Top.node)
    /\ stack' = Append(Below, [Top EXCEPT !.phase = "store"])
    /\ recursiveListenerDisabler' = recursiveListenerDisabler + 1
    /\ UNCHANGED <<store, elemType, original, listenerLists, log, op, overflow>>

\* underlying = newValue returns and the scope of set is left
StoreAndRelease ==
    /\ Running
    /\ Top.phase = "store"
    /\ underlying' = [underlying EXCEPT ![Top.node.obj] = Top.new]
    /\ log' = Append(log, Stores(Top))
    /\ stack' = Below
    /\ recursiveListenerDisabler' = callAtEndOfScope(recursiveListenerDisabler)
    /\ UNCHANGED <<elements, mapElements, elemType, original, listenerLists,
                   op, overflow>>

RECURSIVE unwind(_, _)
\* stack unwinding: every scope on the way out that holds a raiiDecrementer
\* (a set past its increment) releases it
unwind(stk, d) ==
    IF stk = <<>> THEN d
    ELSE unwind(SubSeq(stk, 1, Len(stk) - 1),
                IF stk[Len(stk)].phase \in {"store", "copy"}
                THEN callAtEndOfScope(d) ELSE d)

\* underlying = newValue throws (the copy assignment of T fails): nothing in
\* the library catches it, the exception leaves the top-level call
Throw ==
    /\ Running
    /\ Top.phase = "store"
    /\ stack' = <<>>
    /\ recursiveListenerDisabler' = unwind(stack, recursiveListenerDisabler)
    /\ op' = [op EXCEPT !.ret = FALSE, !.how = "thrown"]
    /\ UNCHANGED <<store, elemType, original, listenerLists, log, overflow>>

\* ---- Array<T> and Map<T> --------------------------------------------------
\* the elements the two containers hold together
Size == Len(elements) + Len(mapElements)

\* addListener of the containers and addChildListener on them
AddContainerListener(o) ==
    /\ Idle
    /\ Registered < MaxListeners
    /\ arrayListeners' = IF o = "arr" THEN Append(arrayListeners, "obs")
                         ELSE arrayListeners
    /\ mapListeners' = IF o = "map" THEN Append(mapListeners, "obs")
                       ELSE mapListeners
    /\ op' = Call("addListener", Node(o), "", 0)
    /\ log' = <<>>
    /\ UNCHANGED <<store, elemType, original, valueListeners, childListeners,
                   recursiveListenerDisabler, stack, overflow>>

\* the index removeElement hands to callListeners
removedIdx(idx) == Len(elements)

\* Array<T>::addElement: callListeners(add, element, elements.size()), whatever
\* the guard says; the emplace_back follows as a step of its own
addElement(v) ==
    /\ Idle
    /\ Size < MaxLen
    /\ LET r == Enter(<<>>, Frame("addElement", Node("arr"), v, "", "add",
                                  to_string(Len(elements)), Len(elements),
                                  TRUE, 0))
       IN stack' = r.stack /\ overflow' = r.overflow
    /\ op' = Call("addElement", Node("arr"), "", v)
    /\ log' = <<>>
    /\ UNCHANGED <<store, elemType, original, recursiveListenerDisabler>>
    /\ eraseExpired

\* elements.emplace_back(*this, element)
emplace_back ==
    /\ Running
    /\ Top.phase = "commit" /\ Top.call = "addElement" /\ Top.node.obj = "arr"
    /\ elements' = Append(elements, Top.new)
    /\ log' = Append(log, Stores(Top))
    /\ stack' = Below
    /\ UNCHANGED <<underlying, mapElements, elemType, original, listenerLists,
                   recursiveListenerDisabler, op, overflow>>

\* Array<T>::removeElement(idx): assert(idx < elements.size()), then
\* callListeners(remove, elements[idx], ...); the erase follows
removeElement(idx) ==
    /\ Idle
    /\ idx < Len(elements)
    /\ LET f == Frame("removeElement", Node("arr"), elements[idx + 1], "",
                      "remove", to_string(removedIdx(idx)), removedIdx(idx),
                      TRUE, 0)
           r == Enter(<<>>, [f EXCEPT !.arg = idx])
       IN stack' = r.stack /\ overflow' = r.overflow
    /\ op' = Call("removeElement", Node("arr"), "", idx)
    /\ log' = <<>>
    /\ UNCHANGED <<store, elemType, original, recursiveListenerDisabler>>
    /\ eraseExpired

\* elements.erase(begin() + idx): every later element is assigned to its
\* predecessor with Element::operator=(Element const&), which is a set of the
\* predecessor; then the last element is destroyed
erase ==
    /\ Running
    /\ Top.phase = "commit" /\ Top.call = "removeElement" /\ Top.node.obj = "arr"
    /\ LET f == Top
           p == f.arg + 1 + f.k
       IN IF p < Len(elements)
          THEN /\ LET r == set(Append(Below, [f EXCEPT !.k = f.k + 1]),
                               Element("arr", p - 1), elements[p + 1],
                               "set_cref", Len(log))
                  IN stack' = r.stack /\ overflow' = r.overflow
               /\ UNCHANGED <<elements, log>>
          ELSE /\ elements' = SubSeq(elements, 1, Len(elements) - 1)
               /\ log' = Append(log, Stores(f))
               /\ stack' = Below
               /\ UNCHANGED overflow
    /\ UNCHANGED <<underlying, mapElements, elemType, original, recursiveListenerDisabler, op>>
    /\ eraseExpired

\* a find_if that never finds the key
FindNothing(key) == 0

\* the position of the element with the key, 0 if there is none (find_if)
Find(key) ==
    LET hits == {i \in DOMAIN mapElements : mapElements[i].fieldName = key}
    IN IF hits = {} THEN 0 ELSE CHOOSE i \in hits : \A j \in hits : i <= j

\* the body of Map<T>::addElement up to the emplace_back
mapAdd(key, v, how) ==
    IF Find(key) > 0
    THEN set(<<>>, Element("map", Find(key) - 1), v, how, 0)
    ELSE Enter(<<>>, Frame("addElement", Node("map"), v, how,
                           "add", key, 0, TRUE, 0))

\* Map<T>::addElement(key, element), both overloads: an element with the key
\* is assigned to (*it = element); otherwise callListeners(add, element, key)
\* and the emplace_back as a step of its own.  The map holds at most cap
\* elements.
mapAddElement(key, v, how, cap) ==
    /\ Idle
    /\ LET r == mapAdd(key, v, how)
       IN stack' = r.stack /\ overflow' = r.overflow
    /\ Find(key) = 0 => Size < cap
    /\ op' = [Call("mapAddElement", Node("map"), key, v) EXCEPT !.how = how]
    /\ log' = <<>>
    /\ UNCHANGED <<store, elemType, original, recursiveListenerDisabler>>
    /\ eraseExpired

\* elements.emplace_back(key, *this, element)
mapEmplaceBack ==
    /\ Running
    /\ Top.phase = "commit" /\ Top.call = "addElement" /\ Top.node.obj = "map"
    /\ mapElements' = Append(mapElements, [fieldName |-> Top.key, v |-> Top.new])
    /\ log' = Append(log, Stores(Top))
    /\ stack' = Below
    /\ UNCHANGED <<underlying, elements, elemType, original, listenerLists,
                   recursiveListenerDisabler, op, overflow>>

\* the body of Map<T>::removeElement up to the erase: nothing if the key is
\* not found, otherwise callListeners(remove, *it, key)
mapRemove(key) ==
    IF Find(key) = 0 THEN Return(<<>>)
    ELSE Enter(<<>>, [Frame("removeElement", Node("map"),
                            mapElements[Find(key)].v, "", "remove", key, 0,
                            TRUE, 0) EXCEPT !.arg = Find(key)])

\* Map<T>::removeElement(key): returns whether the key was found
mapRemoveElement(key) ==
    /\ Idle
    /\ LET r == mapRemove(key)
       IN stack' = r.stack /\ overflow' = r.overflow
    /\ op' = [Call("mapRemoveElement", Node("map"), key, 0)
                  EXCEPT !.ret = Find(key) > 0]
    /\ log' = <<>>
    /\ UNCHANGED <<store, elemType, original, recursiveListenerDisabler>>
    /\ eraseExpired

\* Map<T>::removeChild(name): find_if, then removeElement(name)
mapRemoveChild(nm) ==
    /\ Idle
    /\ LET r == mapRemove(nm)
       IN stack' = r.stack /\ overflow' = r.overflow
    /\ op' = [Call("mapRemoveChild", Node("map"), nm, 0)
                  EXCEPT !.ret = Find(nm) > 0]
    /\ log' = <<>>
    /\ UNCHANGED <<store, elemType, original, recursiveListenerDisabler>>
    /\ eraseExpired

\* an assignment that leaves the fieldName of the target alone
keepFieldName(m, p) == m

\* fieldName = o.fieldName in Map<T>::Element::operator=(Element const&), for
\* the element at p assigned to the one before it
assignFieldName(m, p) == [m EXCEPT ![p - 1].fieldName = m[p].fieldName]

\* elements.erase(it): every later element is assigned to its predecessor
\* with Map<T>::Element::operator=(Element const&), which sets the value of
\* the predecessor and then copies the fieldName; then the last element is
\* destroyed.  A step first completes the assignment the step before began.
mapErase ==
    /\ Running
    /\ Top.phase = "commit" /\ Top.call = "removeElement" /\ Top.node.obj = "map"
    /\ LET f == Top
           p == f.arg + f.k
           named == IF f.k = 0 THEN mapElements
                    ELSE assignFieldName(mapElements, p)
       IN IF p < Len(mapElements)
          THEN /\ LET r == set(Append(Below, [f EXCEPT !.k = f.k + 1]),
                               Element("map", p - 1), mapElements[p + 1].v,
                               "set_cref", Len(log))
                  IN stack' = r.stack /\ overflow' = r.overflow
               /\ mapElements' = named
               /\ UNCHANGED log
          ELSE /\ mapElements' = SubSeq(named, 1, Len(named) - 1)
               /\ log' = Append(log, Stores(f))
               /\ stack' = Below
               /\ UNCHANGED overflow
    /\ UNCHANGED <<underlying, elements, elemType, original, recursiveListenerDisabler, op>>
    /\ eraseExpired

\* Map<T>::assignChild(name, newValue) for a newValue of the type ty holding
\* v: false if ty is not T; an element called name is assigned to with
\* Fundamental<T>::assign; otherwise addElement(name, T&&)
mapAssignChild(nm, v, ty, cap) ==
    /\ Idle
    /\ LET r == IF ty /= elemType THEN Return(<<>>)
                ELSE IF Find(nm) > 0
                THEN set(<<>>, Element("map", Find(nm) - 1), v, "set_cref", 0)
                ELSE mapAdd(nm, v, "set_rref")
       IN stack' = r.stack /\ overflow' = r.overflow
    /\ (ty = elemType /\ Find(nm) = 0) => Size < cap
    /\ op' = [Call("mapAssignChild", Node("map"), nm, v)
                  EXCEPT !.ret = (ty = elemType), !.how = ty]
    /\ log' = <<>>
    /\ UNCHANGED <<store, elemType, original, recursiveListenerDisabler>>
    /\ eraseExpired

\* the listener list a copy would have if it shared that of its original
sameListeners(l) == l

\* the listener list of a copy-constructed value: valueListeners,
\* childListeners, arrayListeners and mapListeners are not in the initializer
\* lists of the copy constructors, so they are default-initialized
constructedListeners(l) == <<>>

\* Record<A> copy(original): the copy constructors of Record, Fundamental,
\* Array and Map copy the values and the elements, and init() sets the parents
\* inside the copy; from here on the graph is the copy
CopyConstruct ==
    /\ Idle
    /\ ~original.copied
    /\ original' = [copied |-> TRUE, lists |-> listenerLists]
    /\ valueListeners' = [o \in DOMAIN valueListeners |->
                              constructedListeners(valueListeners[o])]
    /\ childListeners' = [o \in DOMAIN childListeners |->
                              constructedListeners(childListeners[o])]
    /\ arrayListeners' = constructedListeners(arrayListeners)
    /\ mapListeners' = constructedListeners(mapListeners)
    /\ op' = Call("copy", Node("A"), "", 0)
    /\ log' = <<>>
    /\ UNCHANGED <<store, elemType, recursiveListenerDisabler, stack, overflow>>

\* the listener lists of the graph and their positions
Lists == {<<"value", "C">>, <<"child", "A">>, <<"child", "B">>}
ListOf(l) == IF l[1] = "value" THEN valueListeners[l[2]] ELSE childListeners[l[2]]

\* the list l becomes now
Becomes(l, now) ==
    /\ valueListeners' = IF l[1] = "value"
                         THEN [valueListeners EXCEPT ![l[2]] = now]
                         ELSE valueListeners
    /\ childListeners' = IF l[1] = "child"
                         THEN [childListeners EXCEPT ![l[2]] = now]
                         ELSE childListeners
    /\ UNCHANGED <<arrayListeners, mapListeners>>

\* the last shared_ptr to the context of a listener registered with
\* addListener(context, lambda) is released: the entry stays where it is,
\* with a context that has expired
ExpireContext(l, i) ==
    /\ Idle
    /\ i \in DOMAIN ListOf(l) /\ ListOf(l)[i] = "obs"
    /\ Becomes(l, [ListOf(l) EXCEPT ![i] = "expired"])
    /\ op' = [Call("expire", Node(l[2]), l[1], i) EXCEPT !.pre = ListOf(l)]
    /\ log' = <<>>
    /\ UNCHANGED <<store, elemType, original, recursiveListenerDisabler,
                   stack, overflow>>

\* a list that keeps the listener at position i
withListener(s, i) == s

\* the list without the listener at position i
withoutListener(s, i) == SubSeq(s, 1, i - 1) \o SubSeq(s, i + 1, Len(s))

\* ~ListenerToken of the token that holds the listener at position i of the
\* list l: the listener is removed there and then
DestroyToken(l, i) ==
    /\ Idle
    /\ i \in DOMAIN ListOf(l) /\ ListOf(l)[i] = "token"
    /\ Becomes(l, withoutListener(ListOf(l), i))
    /\ op' = [Call("destroyToken", Node(l[2]), l[1], i) EXCEPT !.pre = ListOf(l)]
    /\ log' = <<>>
    /\ UNCHANGED <<store, elemType, original, recursiveListenerDisabler,
                   stack, overflow>>

\* ~ListenerToken of a default-constructed or moved-from token: its
\* shared_ptr is empty
DestroyEmptyToken ==
    /\ Idle
    /\ op' = [Call("destroyEmptyToken", Node("A"), "", 0)
                  EXCEPT !.pre = listenerLists]
    /\ log' = <<>>
    /\ UNCHANGED <<store, elemType, original, listenerLists,
                   recursiveListenerDisabler, stack, overflow>>

\* ---- the specifications -----------------------------------------------------
Init ==
    /\ underlying = [c \in Cells |-> 0]
    /\ elements = <<>>
    /\ elemType = "int32_t"
    /\ mapElements = <<>>
    /\ NoListeners
    /\ recursiveListenerDisabler = 0
    /\ stack = <<>>
    /\ log = <<>>
    /\ op = [name |-> "none", node |-> Node("A"), entry |-> "", w |-> 0,
             pre |-> 0, how |-> "", ret |-> TRUE]
    /\ overflow = FALSE
    /\ original = [copied |-> FALSE, lists |-> <<>>]

\* writes to the cells C and F, with callbacks that write themselves
Next ==
    \/ \E beh \in Behaviours : AddListener("C", beh)
    \/ AddListener("F", "obs")
    \/ \E o \in {"A", "B"} : AddChildListener(o, "obs")
    \/ \E o \in Cells, how \in Paths, w \in Val : Write(o, w, how)
    \/ Invoke
    \/ Commit

Spec == Init /\ [][Next]_vars

\* assignments of whole records to B
NextRec ==
    \/ \E o \in {"C", "F", "B"} : AddListener(o, "obs")
    \/ \E o \in {"A", "B"} : AddChildListener(o, "obs")
    \/ \E how \in Paths, w \in ValuesOf("B") : Write("B", w, how)
    \/ Invoke
    \/ Commit
    \/ CommitRecord
    \/ CopyField

SpecRec == Init /\ [][NextRec]_vars

NextGuard ==
    \/ \E beh \in {"obs", "bump"} : AddListener("C", beh)
    \/ AddChildListener("A", "obs")
    \/ \E o \in Cells, w \in {0, MaxVal} : Write(o, w, "set_cref")
    \/ \E how \in Paths, w \in [C : {0, MaxVal}, F : {0, MaxVal}] :
           Write("B", w, how)
    \/ Invoke
    \/ RaiseGuard
    \/ StoreAndRelease
    \/ Throw
    \/ CommitRecord
    \/ CopyField

SpecGuard == Init /\ [][NextGuard]_vars

\* the containers arr and map of A, of either element type
InitArr ==
    /\ underlying = [c \in Cells |-> 0]
    /\ elements = <<>>
    /\ elemType \in {"int32_t", "float"}
    /\ mapElements = <<>>
    /\ NoListeners
    /\ recursiveListenerDisabler = 0
    /\ stack = <<>>
    /\ log = <<>>
    /\ op = [name |-> "none", node |-> Node("A"), entry |-> "", w |-> 0,
             pre |-> 0, how |-> "", ret |-> TRUE]
    /\ overflow = FALSE
    /\ original = [copied |-> FALSE, lists |-> <<>>]

NextArr ==
    \/ \E o \in Containers : AddContainerListener(o)
    \/ \E o \in {"A", "arr", "map"} : AddChildListener(o, "obs")
    \/ \E v \in Val : addElement(v)
    \/ \E idx \in 0..(MaxLen - 1) : removeElement(idx)
    \/ \E key \in Keys, v \in Val, how \in {"set_cref", "set_rref"} :
           mapAddElement(key, v, how, MaxLen)
    \/ Invoke
    \/ Commit
    \/ emplace_back
    \/ erase
    \/ mapEmplaceBack

SpecArr == InitArr /\ [][NextArr]_vars

\* the types a Value handed to assign or assignChild can have
Types == {"int32_t", "float", "invalid"}

\* the map alone, with up to MaxEntries elements and without listeners
NextMap ==
    \/ \E key \in MapKeys, v \in {0, MaxVal}, how \in {"set_cref", "set_rref"} :
           mapAddElement(key, v, how, MaxEntries)
    \/ \E key \in MapKeys : mapRemoveElement(key)
    \/ \E key \in MapKeys : mapRemoveChild(key)
    \/ \E key \in MapKeys, ty \in Types :
           mapAssignChild(key, MaxVal, ty, MaxEntries)
    \/ Commit
    \/ mapEmplaceBack
    \/ mapErase

SpecMap == InitArr /\ [][NextMap]_vars

\* removal from the map with map listeners and child listeners registered
NextMapRemove ==
    \/ AddContainerListener("map")
    \/ \E o \in {"A", "map"} : AddChildListener(o, "obs")
    \/ \E key \in Keys, v \in Val : mapAddElement(key, v, "set_rref", MaxLen)
    \/ \E key \in Keys : mapRemoveElement(key)
    \/ \E key \in Keys : mapRemoveChild(key)
    \/ Invoke
    \/ Commit
    \/ mapEmplaceBack
    \/ mapErase

SpecMapRemove == InitArr /\ [][NextMapRemove]_vars

\* ---- copies of the containers and assignment to them ----------------------
RECURSIVE arrayEqualFrom(_, _, _)
\* the loop of operator==(Array<T> const&, Array<T> const&) from position i
arrayEqualFrom(aarray, barray, i) ==
    IF i > Len(aarray) THEN TRUE
    ELSE IF aarray[i] /= barray[i] THEN FALSE
    ELSE arrayEqualFrom(aarray, barray, i + 1)

\* operator==(Array<T> const& aarray, Array<T> const& barray)
arrayEqual(aarray, barray) ==
    IF Len(aarray) /= Len(barray) THEN FALSE
    ELSE arrayEqualFrom(aarray, barray, 1)

\* a second array and a second map, default-constructed: original.other
\* holds their elements
InitPair ==
    /\ underlying = [c \in Cells |-> 0]
    /\ elements = <<>>
    /\ elemType = "int32_t"
    /\ mapElements = <<>>
    /\ NoListeners
    /\ recursiveListenerDisabler = 0
    /\ stack = <<>>
    /\ log = <<>>
    /\ op = [name |-> "none", node |-> Node("A"), entry |-> "", w |-> 0,
             pre |-> 0, how |-> "", ret |-> TRUE]
    /\ overflow = FALSE
    /\ original = [copied |-> FALSE, lists |-> <<>>,
                   other |-> [o \in Containers |-> <<>>]]

\* Array(Array const& o) and Map(Map const& o): the other container is
\* constructed anew as a copy of the container o, element by element
\* (elements.emplace_back(*this, elem()), for the map with elem.fieldName)
containerCopyConstruct(o) ==
    /\ Idle
    /\ original' = [original EXCEPT
           !.other[o] = [i \in DOMAIN Stored(Node(o)) |-> Stored(Node(o))[i]]]
    /\ op' = Call("copyConstruct", Node(o), "", 0)
    /\ log' = <<>>
    /\ UNCHANGED <<store, elemType, listenerLists, recursiveListenerDisabler,
                   stack, overflow>>

\* the values an assign can be handed: the other container of the same
\* type, the container itself, a value of another type
Others == {"other", "self", "invalid"}

\* an assign that finds nothing to copy
otherElementsNone(f) == <<>>

\* other.elements, as the loop of assign reads it
otherElements(f) ==
    IF f.how = "self" THEN Stored(f.node) ELSE original.other[f.node.obj]

\* Array<T>::assign and Map<T>::assign (operator= calls assign): false if
\* the types differ; otherwise the two loops, which containerAssignLoop runs
containerAssign(o, unsafeOther) ==
    /\ Idle
    /\ LET r == IF unsafeOther = "invalid" THEN Return(<<>>)
                ELSE Enter(<<>>, Frame("assign", Node(o), 0, unsafeOther,
                                       "assign", "", 0, FALSE, 0))
       IN stack' = r.stack /\ overflow' = r.overflow
    /\ op' = [Call("assign", Node(o), "", 0) EXCEPT
                  !.ret = (unsafeOther /= "invalid"),
                  !.how = unsafeOther,
                  !.pre = IF unsafeOther = "self" THEN Stored(Node(o))
                          ELSE original.other[o]]
    /\ log' = <<>>
    /\ UNCHANGED <<store, elemType, original, recursiveListenerDisabler>>
    /\ eraseExpired

\* while (elements.size()) removeElement(last); then for every otherElement
\* addElement(otherElement); return true.  arg is 1 once the first loop is
\* left, k counts the elements the second loop has added
containerAssignLoop ==
    /\ Running
    /\ Top.phase = "commit" /\ Top.call = "assign"
    /\ LET f == Top
           o == f.node.obj
           mine == Stored(f.node)
           size == Len(mine)
           src == otherElements(f)
           next == Append(Below, [f EXCEPT !.k = f.k + 1, !.arg = 1])
           r == IF f.arg = 0 /\ size > 0
                THEN (IF o = "arr"
                      THEN Enter(stack,
                               [Frame("removeElement", f.node, mine[size], "",
                                      "remove", to_string(removedIdx(size - 1)),
                                      removedIdx(size - 1), TRUE, Len(log))
                                    EXCEPT !.arg = size - 1])
                      ELSE Enter(stack,
                               [Frame("removeElement", f.node,
                                      mine[Find(mine[size].fieldName)].v, "",
                                      "remove", mine[size].fieldName, 0, TRUE,
                                      Len(log))
                                    EXCEPT !.arg = Find(mine[size].fieldName)]))
                ELSE IF f.k < Len(src)
                THEN (IF o = "arr"
                      THEN Enter(next,
                               Frame("addElement", f.node, src[f.k + 1], "",
                                     "add", to_string(size), size, TRUE,
                                     Len(log)))
                      ELSE IF Find(src[f.k + 1].fieldName) > 0
                      THEN set(next,
                               Element("map", Find(src[f.k + 1].fieldName) - 1),
                               src[f.k + 1].v, "set_rref", Len(log))
                      ELSE Enter(next,
                               Frame("addElement", f.node, src[f.k + 1].v,
                                     "set_rref", "add", src[f.k + 1].fieldName,
                                     0, TRUE, Len(log))))
                ELSE Return(Below)
       IN stack' = r.stack /\ overflow' = r.overflow
    /\ UNCHANGED <<store, elemType, original, recursiveListenerDisabler, log, op>>
    /\ eraseExpired

NextPair ==
    \/ AddContainerListener("arr")
    \/ \E v \in {0, MaxVal} : addElement(v)
    \/ \E key \in Keys : mapAddElement(key, MaxVal, "set_rref", MaxLen)
    \/ \E o \in Containers : containerCopyConstruct(o)
    \/ \E o \in Containers, unsafeOther \in Others : containerAssign(o, unsafeOther)
    \/ containerAssignLoop
    \/ Invoke
    \/ Commit
    \/ emplace_back
    \/ erase
    \/ mapEmplaceBack
    \/ mapErase

SpecPair == InitPair /\ [][NextPair]_vars

\* ---- the assignment of a record that holds containers -------------------------
\* the values the record A is assigned
RecordValues ==
    [B : [C : {0, MaxVal}, F : {0}],
     arr : {<<>>, <<MaxVal>>},
     map : {<<>>, <<[fieldName |-> "a", v |-> MaxVal]>>}]

\* a = std::move(w) for the record A: Fundamental<T>::set(T&&); the
\* containers of the new value are the other containers of the assigns
assignRecord(w) ==
    /\ Idle
    /\ LET r == set(<<>>, Node("A"), w, "set_rref", 0)
       IN stack' = r.stack /\ overflow' = r.overflow
    /\ original' = [original EXCEPT !.other = [o \in Containers |-> w[o]]]
    /\ op' = Call("write", Node("A"), "set_rref", w)
    /\ log' = <<>>
    /\ UNCHANGED <<store, elemType, recursiveListenerDisabler>>
    /\ eraseExpired

NextWhole ==
    \/ \E o \in Containers : AddContainerListener(o)
    \/ \E o \in {"A", "arr"} : AddChildListener(o, "obs")
    \/ addElement(0)
    \/ mapAddElement("b", 0, "set_rref", MaxLen)
    \/ \E w \in RecordValues : assignRecord(w)
    \/ Invoke
    \/ Commit
    \/ CommitRecord
    \/ CopyField
    \/ containerAssignLoop
    \/ emplace_back
    \/ erase
    \/ mapEmplaceBack
    \/ mapErase

SpecWhole == InitPair /\ [][NextWhole]_vars

\* ---- MetaType ---------------------------------------------------------------
\* the concrete types whose descriptors are asked for
MetaTypes == {"int32_t", "Point", "Array<float>"}

\* an accessor that builds a descriptor at every call
descriptorAnew(metas, t, fresh) == fresh

\* the descriptor of the type t: built at the first access (at the address
\* fresh), the same one from then on
descriptor(metas, t, fresh) == IF metas[t] = 0 THEN fresh ELSE metas[t]

\* no descriptor has been accessed and no instance constructed
InitMeta ==
    /\ underlying = [c \in Cells |-> 0]
    /\ elements = <<>>
    /\ elemType = "int32_t"
    /\ mapElements = <<>>
    /\ NoListeners
    /\ recursiveListenerDisabler = 0
    /\ stack = <<>>
    /\ log = <<>>
    /\ op = [name |-> "none", node |-> Node("A"), entry |-> "", w |-> 0,
             pre |-> 0, how |-> "", ret |-> TRUE]
    /\ overflow = FALSE
    /\ original = [copied |-> FALSE, lists |-> <<>>,
                   metas |-> [t \in MetaTypes |-> 0], instances |-> <<>>]

\* one access to the descriptor of t, through the accessor named
access(accessor, t, arg) ==
    /\ Len(log) < MaxCalls
    /\ LET at == descriptor(original.metas, t, Len(log) + 1)
       IN /\ original' = [original EXCEPT !.metas[t] = at]
          /\ log' = Append(log, [accessor |-> accessor, type |-> t,
                                 instance |-> arg, address |-> at])
          /\ op' = [name |-> accessor, node |-> Node("A"), entry |-> t,
                    w |-> arg, pre |-> original.metas, how |-> "", ret |-> at]
    /\ UNCHANGED <<store, elemType, listenerLists, recursiveListenerDisabler,
                   stack, overflow>>

\* Fundamental<T>::meta(), Record<T>::meta(), Array<T>::meta(), Map<T>::meta()
meta(t) == access("meta", t, 0)

\* metaTypeOf<T>()
metaTypeOf(t) == access("metaTypeOf", t, 0)

\* Value::metaType() on the instance number i
metaType(i) ==
    /\ i \in DOMAIN original.instances
    /\ access("metaType", original.instances[i], i)

\* MetaType::construct() on the descriptor of t, which an access has
\* returned: a new instance of the type
construct(t) ==
    /\ original.metas[t] /= 0
    /\ Len(original.instances) < MaxLen
    /\ original' = [original EXCEPT !.instances = Append(@, t)]
    /\ op' = [name |-> "construct", node |-> Node("A"), entry |-> t,
              w |-> Len(original.instances) + 1, pre |-> original.instances,
              how |-> "", ret |-> TRUE]
    /\ UNCHANGED <<store, elemType, listenerLists, recursiveListenerDisabler,
                   stack, log, overflow>>

NextMeta ==
    \/ \E t \in MetaTypes : meta(t)
    \/ \E t \in MetaTypes : metaTypeOf(t)
    \/ \E i \in 1..MaxLen : metaType(i)
    \/ \E t \in MetaTypes : construct(t)

SpecMeta == InitMeta /\ [][NextMeta]_vars

\* ---- ID::toString and ID::fromString, character by character ---------------
\* a string is the sequence of its characters; the characters of the model
Chars == {"a", "/"}

\* the strings of up to n characters
StringsUpTo(n) == UNION {[1..k -> Chars] : k \in 0..n}

\* the IDs of up to MaxPath segments of up to MaxSegment characters each
PathValues == UNION {[1..k -> StringsUpTo(MaxSegment)] : k \in 0..MaxPath}

RECURSIVE copyWithSlash(_)
\* std::copy(begin(), end(), std::ostream_iterator<std::string>(ss, "/")):
\* every segment followed by a slash
copyWithSlash(id) ==
    IF id = <<>> THEN <<>> ELSE id[1] \o <<"/">> \o copyWithSlash(Tail(id))

\* a toString that returns ss.str() as it is
ID_toStringWhole(id) == copyWithSlash(id)

\* ID::toString: ss.str().substr(0, ss.str().size() - 1); for the empty
\* string size() - 1 is npos and the substring is the empty string
ID_toString(id) ==
    LET str == copyWithSlash(id)
    IN IF str = <<>> THEN <<>> ELSE SubSeq(str, 1, Len(str) - 1)

\* the position of the first slash of a string, 0 if it has none
FirstSlash(str) ==
    LET at == {i \in DOMAIN str : str[i] = "/"}
    IN IF at = {} THEN 0 ELSE CHOOSE i \in at : \A j \in at : i <= j

\* a fromString that takes the whole string as one segment
ID_fromStringWhole(path) == <<path>>

RECURSIVE ID_fromString(_)
\* ID::fromString: std::getline(ss, line, '/') until it fails.  getline
\* fails when no character is left; otherwise it takes the characters up to
\* the next slash, which it drops, or up to the end of the string
ID_fromString(path) ==
    IF path = <<>> THEN <<>>
    ELSE IF FirstSlash(path) = 0 THEN <<path>>
    ELSE <<SubSeq(path, 1, FirstSlash(path) - 1)>>
             \o ID_fromString(SubSeq(path, FirstSlash(path) + 1, Len(path)))

\* an ID or a string to convert, before any conversion
Given(kind, x) ==
    [name |-> kind, node |-> Node("A"), entry |-> x, w |-> 0, pre |-> x,
     how |-> kind, ret |-> x]

InitPath ==
    /\ underlying = [c \in Cells |-> 0]
    /\ elements = <<>>
    /\ elemType = "int32_t"
    /\ mapElements = <<>>
    /\ NoListeners
    /\ recursiveListenerDisabler = 0
    /\ stack = <<>>
    /\ log = <<>>
    /\ \/ \E id \in PathValues : op = Given("ID", id)
       \/ \E str \in StringsUpTo(MaxString) : op = Given("string", str)
    /\ overflow = FALSE
    /\ original = [copied |-> FALSE, lists |-> <<>>]

\* toString() on the ID given or on the ID fromString returned
ApplyToString ==
    /\ op.name \in {"ID", "fromString"}
    /\ op.w < 2
    /\ op' = [op EXCEPT !.name = "toString", !.entry = op.ret,
                        !.ret = ID_toString(op.ret), !.w = op.w + 1]
    /\ UNCHANGED <<store, elemType, original, listenerLists,
                   recursiveListenerDisabler, stack, log, overflow>>

\* fromString on the string given or on the string toString returned
ApplyFromString ==
    /\ op.name \in {"string", "toString"}
    /\ op.w < 2
    /\ op' = [op EXCEPT !.name = "fromString", !.entry = op.ret,
                        !.ret = ID_fromString(op.ret), !.w = op.w + 1]
    /\ UNCHANGED <<store, elemType, original, listenerLists,
                   recursiveListenerDisabler, stack, log, overflow>>

NextPath == ApplyToString \/ ApplyFromString

SpecPath == InitPath /\ [][NextPath]_vars

\* ---- Value::visit with a visitor that takes a mutable scalar ---------------
\* the visitors: what each leaves in the copy it is handed
Mutators == [Val -> Val]

\* a write-back that moves the copy into the cell
writeBackMoved == "set_rref"

\* static_cast<Fundamental<Type>&>(self) = copy: operator=(T const&), which
\* runs set(T const&)
writeBack == EntryPath("assignT")

\* the visitor at work on the copy, with what the cell holds at that moment
Visiting(n, copy) ==
    [kind |-> "lambda", lid |-> 0, at |-> n.obj, opn |-> "visit",
     path |-> <<>>, value |-> copy, parent |-> Parent(n),
     idx |-> 0, key |-> "", node |-> n, old |-> Stored(n),
     seen |-> Stored(n), depth |-> 1,
     guard |-> recursiveListenerDisabler, start |-> 0]

\* Value::visit on the cell o with the visitor f: Type copy(v.get());
\* lambda_(copy); then the copy is assigned to the cell
visitMutable(o, f) ==
    /\ Idle
    /\ LET copy == Stored(Node(o))
           r == set(<<>>, Node(o), f[copy], writeBack, 1)
       IN /\ stack' = r.stack /\ overflow' = r.overflow
          /\ log' = <<Visiting(Node(o), f[copy])>>
          /\ op' = Call("visitMutable", Node(o), "", f[copy])
    /\ UNCHANGED <<store, elemType, original, recursiveListenerDisabler>>
    /\ eraseExpired

NextVisit ==
    \/ \E o \in Cells : AddListener(o, "obs")
    \/ \E o \in {"A", "B"} : AddChildListener(o, "obs")
    \/ \E o \in Cells, w \in Val : Write(o, w, "set_cref")
    \/ \E o \in Cells, f \in Mutators : visitMutable(o, f)
    \/ Invoke
    \/ Commit

SpecVisit == Init /\ [][NextVisit]_vars

\* ---- operator== of maps ---------------------------------------------------
\* the maps of up to MaxLen elements with keys of Keys, each key at most once,
\* in whichever order of insertion
MapValues ==
    {m \in UNION {[1..k -> [fieldName : Keys, v : Val]] : k \in 0..MaxLen} :
        \A i, j \in DOMAIN m : m[i].fieldName = m[j].fieldName => i = j}

RECURSIVE mapEqualFrom(_, _, _)
\* the loop of operator==(Map<T> const&, Map<T> const&) from the position i:
\* false at the first position where the fieldNames or the elements differ
mapEqualFrom(amap, bmap, i) ==
    IF i > Len(amap) THEN TRUE
    ELSE IF amap[i].fieldName /= bmap[i].fieldName THEN FALSE
    ELSE IF amap[i].v /= bmap[i].v THEN FALSE
    ELSE mapEqualFrom(amap, bmap, i + 1)

\* operator==(Map<T> const& amap, Map<T> const& bmap)
mapEqual(amap, bmap) ==
    IF Len(amap) /= Len(bmap) THEN FALSE ELSE mapEqualFrom(amap, bmap, 1)

\* map == bmap for the map of the model and another map bmap
Equal(bmap) ==
    /\ Idle
    /\ op' = [Call("mapEqual", Node("map"), "", bmap)
                  EXCEPT !.ret = mapEqual(mapElements, bmap)]
    /\ log' = <<>>
    /\ UNCHANGED <<store, elemType, original, listenerLists,
                   recursiveListenerDisabler, stack, overflow>>

NextEqual ==
    \/ AddContainerListener("map")
    \/ AddChildListener("map", "obs")
    \/ \E key \in Keys, v \in Val : mapAddElement(key, v, "set_rref", MaxLen)
    \/ \E bmap \in MapValues : Equal(bmap)
    \/ Invoke
    \/ Commit
    \/ mapEmplaceBack

SpecEqual == InitArr /\ [][NextEqual]_vars

\* listeners are registered on a graph, the graph is copied, and the copy is
\* written to
NextCopy ==
    \/ ~original.copied /\ AddListener("C", "obs")
    \/ ~original.copied /\ \E o \in {"A", "B"} : AddChildListener(o, "obs")
    \/ ~original.copied /\ \E o \in Containers : AddContainerListener(o)
    \/ \E w \in Val : Write("C", w, "set_cref")
    \/ addElement(MaxVal)
    \/ \E key \in Keys : mapAddElement(key, MaxVal, "set_rref", MaxLen)
    \/ Invoke
    \/ Commit
    \/ emplace_back
    \/ mapEmplaceBack
    \/ CopyConstruct

SpecCopy == Init /\ [][NextCopy]_vars

\* listeners with a token and listeners with a context are registered, their
\* owners go away, and the cell C is written to
NextLife ==
    \/ \E beh \in {"obs", "token"} : AddListener("C", beh)
    \/ \E o \in {"A", "B"}, beh \in {"obs", "token"} : AddChildListener(o, beh)
    \/ \E l \in Lists, i \in 1..MaxListeners : ExpireContext(l, i)
    \/ \E l \in Lists, i \in 1..MaxListeners : DestroyToken(l, i)
    \/ DestroyEmptyToken
    \/ \E w \in Val : Write("C", w, "set_cref")
    \/ Invoke
    \/ Commit

SpecLife == Init /\ [][NextLife]_vars

\* ---- paths ------------------------------------------------------------------
RECURSIVE toString(_)
\* ID::toString: the segments joined by '/'
toString(id) ==
    IF id = <<>> THEN ""
    ELSE IF Len(id) = 1 THEN id[1]
    ELSE id[1] \o "/" \o toString(Tail(id))

\* the nodes typeErasedFields() of an object enumerates, in order
Fields(n) ==
    IF n.pos > 0 THEN <<>>
    ELSE CASE n.obj \in Records ->
                  [i \in 1..Len(FieldNames(n.obj)) |-> Node(FieldNames(n.obj)[i])]
           [] n.obj = "arr" -> [i \in 1..Len(elements) |-> Element("arr", i - 1)]
           [] n.obj = "map" -> [i \in 1..Len(mapElements) |-> Element("map", i - 1)]
           [] OTHER -> <<>>

Invalid == [obj |-> "invalid", pos |-> 0]

\* Value::isValid: false for Invalid only
isValid(n) == n /= Invalid

\* Value::isStruct: true for Object, that is Record, Array and Map
isStruct(n) == n.pos = 0 /\ n.obj \in Objects

\* a lookup that finds no field
ChildAbsent(n, nm) == Invalid

\* Object::operator()(string_view): the first field with that name
Child(n, nm) ==
    LET hits == {i \in DOMAIN Fields(n) : name(Fields(n)[i]) = nm}
    IN IF hits = {} THEN Invalid
       ELSE Fields(n)[CHOOSE i \in hits : \A j \in hits : i <= j]

RECURSIVE getchild(_, _)
\* Object::getchild(ID): one step per segment, Invalid when a step fails
getchild(n, id) ==
    IF id = <<>> THEN n
    ELSE LET fld == Child(n, id[1])
         IN IF Tail(id) /= <<>>
            THEN (IF ~isStruct(fld) THEN Invalid ELSE getchild(fld, Tail(id)))
            ELSE fld

\* Value::fieldname: empty unless the value is a field or an element
fieldname(n) ==
    IF n = Invalid \/ Parent(n) = "null" THEN "" ELSE name(n)

\* ---- assignChild and removeChild of the array -----------------------------
\* the names handed to assignChild and removeChild, as sequences of characters
IndexNames ==
    {<<>>, <<"0">>, <<"1">>, <<"2">>, <<"x">>, <<"-", "1">>, <<"0", "x">>,
     <<"1", "x">>, <<"x", "1">>}

\* the value of a digit
DigitValue(c) == CHOOSE d \in 0..9 : Digit[d + 1] = c

\* how many characters at the head of s are digits
RECURSIVE LeadingDigits(_)
LeadingDigits(s) ==
    IF s = <<>> \/ s[1] \notin {Digit[d] : d \in DOMAIN Digit} THEN 0
    ELSE 1 + LeadingDigits(Tail(s))

\* the number a sequence of digits spells
RECURSIVE Number(_)
Number(s) ==
    IF s = <<>> THEN 0
    ELSE 10 * Number(SubSeq(s, 1, Len(s) - 1)) + DigitValue(s[Len(s)])

\* std::stoi(name): an optional sign, then the longest run of digits, which
\* must not be empty (invalid_argument, caught by the caller: ok is FALSE);
\* what follows the digits is ignored.  No name here is out of range.
stoi(s) ==
    LET neg == s /= <<>> /\ s[1] = "-"
        body == IF neg THEN Tail(s) ELSE s
        k == LeadingDigits(body)
    IN IF k = 0 THEN [ok |-> FALSE, value |-> 0]
       ELSE [ok |-> TRUE,
             value |-> (IF neg THEN -1 ELSE 1) * Number(SubSeq(body, 1, k))]

\* Array<T>::assignChild(name, newValue), newValue of the type ty holding v:
\* false for another type, for a name stoi rejects and for a negative
\* index; assign on the element inside the bounds; otherwise the loop of
\* addElement({}) and the addElement of the value follow as steps
arrayAssignChild(nm, ty, v, cap) ==
    /\ Idle
    /\ LET index == stoi(nm)
           fails == ty /= elemType \/ ~index.ok \/ index.value < 0
           r == IF fails THEN Return(<<>>)
                ELSE IF index.value < Len(elements)
                THEN set(<<>>, Element("arr", index.value), v, "set_cref", 0)
                ELSE Enter(<<>>, Frame("assignChild", Node("arr"), v, "", "add",
                                       "", index.value, FALSE, 0))
       IN /\ ~fails => index.value < cap
          /\ stack' = r.stack /\ overflow' = r.overflow
          /\ op' = [Call("arrayAssignChild", Node("arr"), nm, v)
                        EXCEPT !.ret = ~fails, !.how = ty]
    /\ log' = <<>>
    /\ UNCHANGED <<store, elemType, original, recursiveListenerDisabler>>
    /\ eraseExpired

\* a loop that adds no default-constructed element
fillsNever(size, index) == FALSE

\* while (elements.size() < index)
fills(size, index) == size < index

\* while (elements.size() < index) addElement({}); then addElement(value):
\* one call of addElement per step, up to its emplace_back
extend ==
    /\ Running
    /\ Top.phase = "commit" /\ Top.call = "assignChild"
    /\ LET f == Top
           size == Len(elements)
           r == IF fills(size, f.idx)
                THEN Enter(stack, Frame("addElement", Node("arr"), 0, "", "add",
                                        to_string(size), size, TRUE, Len(log)))
                ELSE Enter(Below, Frame("addElement", Node("arr"), f.new, "",
                                        "add", to_string(size), size, TRUE,
                                        Len(log)))
       IN stack' = r.stack /\ overflow' = r.overflow
    /\ UNCHANGED <<store, elemType, original, recursiveListenerDisabler, log, op>>
    /\ eraseExpired

\* Array<T>::removeChild(name): false for a name stoi rejects and for an
\* index that is negative or not below the size, otherwise removeElement
arrayRemoveChild(nm) ==
    /\ Idle
    /\ LET index == stoi(nm)
           fails == ~index.ok \/ index.value < 0 \/ index.value >= Len(elements)
           f == Frame("removeElement", Node("arr"), elements[index.value + 1],
                      "", "remove", to_string(removedIdx(index.value)),
                      removedIdx(index.value), TRUE, 0)
           r == IF fails THEN Return(<<>>)
                ELSE Enter(<<>>, [f EXCEPT !.arg = index.value])
       IN /\ stack' = r.stack /\ overflow' = r.overflow
          /\ op' = [Call("arrayRemoveChild", Node("arr"), nm, 0)
                        EXCEPT !.ret = ~fails]
    /\ log' = <<>>
    /\ UNCHANGED <<store, elemType, original, recursiveListenerDisabler>>
    /\ eraseExpired

\* the array is written to and shortened through the names of its children
NextIndex ==
    \/ AddContainerListener("arr")
    \/ \E o \in {"A", "arr"} : AddChildListener(o, "obs")
    \/ \E nm \in IndexNames, ty \in {"int32_t", "float"} :
           arrayAssignChild(nm, ty, MaxVal, MaxEntries)
    \/ extend
    \/ \E nm \in IndexNames : arrayRemoveChild(nm)
    \/ Invoke
    \/ Commit
    \/ emplace_back
    \/ erase

SpecIndex == Init /\ [][NextIndex]_vars

\* ---- assign, assignChild and removeChild of cells and records --------------
\* a type check that every type passes
typeAny(n, ty) == TRUE

\* type() == other.type()
typeMatches(n, ty) == type(n) = ty

\* Fundamental<T>::assign(other), other of the type ty holding w: false if the
\* types differ, otherwise set(T const&) of w; Invalid::assign: false
assign(n, ty, w) ==
    /\ Idle
    /\ LET r == IF n = Invalid \/ ~typeMatches(n, ty) THEN Return(<<>>)
                ELSE set(<<>>, n, w, "set_cref", 0)
       IN stack' = r.stack /\ overflow' = r.overflow
    /\ op' = [Call("assign", n, "", w)
                  EXCEPT !.ret = (n /= Invalid /\ typeMatches(n, ty)), !.how = ty]
    /\ log' = <<>>
    /\ UNCHANGED <<store, elemType, original, recursiveListenerDisabler>>
    /\ eraseExpired

\* a visitField that takes the first field whatever the name
visitFirstField(o, nm) == Fields(Node(o))[1]

\* Record<T>::visitField(name, ...): the field called name, if there is one
visitField(o, nm) == Child(Node(o), nm)

\* Record<T>::assignChild(name, newValue), newValue of the type ty holding w:
\* fld.assign(newValue) on the field called name, false if there is none
assignChild(o, nm, ty, w) ==
    /\ Idle
    /\ LET fld == visitField(o, nm)
           r == IF fld = Invalid \/ ~typeMatches(fld, ty) THEN Return(<<>>)
                ELSE set(<<>>, fld, w, "set_cref", 0)
       IN /\ stack' = r.stack /\ overflow' = r.overflow
          /\ op' = [Call("assignChild", Node(o), nm, w)
                        EXCEPT !.ret = (fld /= Invalid /\ typeMatches(fld, ty)),
                               !.how = ty]
    /\ log' = <<>>
    /\ UNCHANGED <<store, elemType, original, recursiveListenerDisabler>>
    /\ eraseExpired

\* Record<T>::removeChild(name): return false
removeChild(o, nm) ==
    /\ Idle
    /\ op' = [Call("removeChild", Node(o), nm, 0) EXCEPT !.ret = FALSE]
    /\ log' = <<>>
    /\ UNCHANGED <<store, elemType, original, listenerLists,
                   recursiveListenerDisabler, stack, overflow>>

\* values are assigned to the cells, to Invalid and to the fields of the
\* record B
NextAssign ==
    \/ \E o \in Cells : AddListener(o, "obs")
    \/ \E o \in {"A", "B"} : AddChildListener(o, "obs")
    \/ \E n \in {Node("C"), Node("F"), Invalid}, ty \in Types, w \in Val :
           assign(n, ty, w)
    \/ \E nm \in {"C", "F", "x"}, ty \in Types, w \in Val :
           assignChild("B", nm, ty, w)
    \/ \E nm \in {"C", "F", "x"} : removeChild("B", nm)
    \/ Invoke
    \/ Commit

SpecAssign == Init /\ [][NextAssign]_vars

\* ---- lookups and visitors --------------------------------------------------
\* the segments of the IDs looked up: names of fields, an index, a key and a
\* name nothing has
Segments == {"B", "C", "0", "a", "x"}
IDs == UNION {[1..k -> Segments] : k \in 0..MaxPath}

\* the argument types Value::visit tries: Invalid, Object and the supported
\* fundamental types (int32_t for them)
ArgumentTypes == {"Invalid", "Object", "int32_t"}

\* a visitor: the argument types its lambda can be called with (at least
\* one, by the static_assert) and whether every overload returns void
Visitors == [accepts : SUBSET ArgumentTypes \ {{}}, void : BOOLEAN]

\* assert(false) followed by a read through the address 1: the assertion
\* fails, or without assertions the behaviour is undefined
Crash == {"assert", "undefined"}

\* Value::visit of a const receiver: the overload invoked ("none": the
\* generic lambda of std::visit returns without calling the visitor), as
\* the set of outcomes a build can produce
visit(n, visitor) ==
    IF "Invalid" \in visitor.accepts /\ ~isValid(n) THEN {"Invalid"}
    ELSE IF "Object" \in visitor.accepts /\ isStruct(n) THEN {"Object"}
    ELSE IF ~Scalar(n) THEN Crash              \* Value::visit_helper
    ELSE IF type(n) \in visitor.accepts THEN {type(n)}
    ELSE IF visitor.void THEN {"none"}
    ELSE Crash

\* static_cast<Object&>(o).getchild(id)
Getchild(o, id) ==
    /\ Idle
    /\ op' = [Call("getchild", Node(o), id, 0)
                  EXCEPT !.ret = getchild(Node(o), id)]
    /\ log' = <<>>
    /\ UNCHANGED <<store, elemType, original, listenerLists, recursiveListenerDisabler,
                   stack, overflow>>

\* visit, with the visitor given, on the value the last lookup returned
Visit(visitor) ==
    /\ Idle
    /\ op.name = "getchild"
    /\ \E outcome \in visit(op.ret, visitor) :
           op' = [Call("visit", op.ret, visitor, 0) EXCEPT !.ret = outcome]
    /\ log' = <<>>
    /\ UNCHANGED <<store, elemType, original, listenerLists, recursiveListenerDisabler,
                   stack, overflow>>

\* fieldname() on the value the last lookup returned
Fieldname ==
    /\ Idle
    /\ op.name = "getchild"
    /\ op' = [Call("fieldname", op.ret, "", 0) EXCEPT !.ret = fieldname(op.ret)]
    /\ log' = <<>>
    /\ UNCHANGED <<store, elemType, original, listenerLists, recursiveListenerDisabler,
                   stack, overflow>>

\* the containers are filled, and values are looked up and visited
NextLookup ==
    \/ addElement(MaxVal)
    \/ \E key \in Keys : mapAddElement(key, MaxVal, "set_rref", MaxLen)
    \/ Commit
    \/ emplace_back
    \/ mapEmplaceBack
    \/ \E o \in Objects, id \in IDs : Getchild(o, id)
    \/ \E visitor \in Visitors : Visit(visitor)
    \/ Fieldname

SpecLookup == InitArr /\ [][NextLookup]_vars

\* ---- the parent back-references, object by object ---------------------------
\* Two record graphs of the same type: graph 1 is the one constructed at
\* the start, graph 2 is constructed from it by the copy or by the move
\* constructor.  An object is [g, o]: the member o of the graph g.
Members == {"A", "B", "C", "F", "arr", "map"}
Ids == [g : {1, 2}, o : Members]
ContainerIds == [g : {1, 2}, o : Containers]
nullptr == [g |-> 0, o |-> "null"]

\* the members a record type declares: which object embeds which field
Embedded(r) ==
    CASE r.o = "A" -> {[g |-> r.g, o |-> x] : x \in {"B", "arr", "map"}}
      [] r.o = "B" -> {[g |-> r.g, o |-> x] : x \in {"C", "F"}}
      [] OTHER -> {}

\* Record<T>::init: flds.parent = this for every field of the record
init(p, this) ==
    [x \in Ids |-> IF x \in Embedded(this) THEN this ELSE p[x]]

\* Value::Value(Value const&) for every object of the graph g: parent(nullptr)
ValueCopied(p, g) ==
    [x \in Ids |-> IF x.g = g THEN nullptr ELSE p[x]]

\* Value::Value(Value&& o) for the cells of the graph g, moved from the
\* cells of the graph from: parent(nullptr), then std::swap(parent, o.parent)
ValueMoved(p, g, from) ==
    [x \in Ids |->
        IF x.o \in Cells /\ x.g = g THEN p[[g |-> from, o |-> x.o]]
        ELSE IF x.o \in Cells /\ x.g = from THEN nullptr
        ELSE IF x.g = g THEN nullptr
        ELSE p[x]]

\* Record<T>::Record(...): the constructors of the nested record B and then
\* of A run init()
Constructed(p, g) ==
    init(init(p, [g |-> g, o |-> "B"]), [g |-> g, o |-> "A"])

\* Element::Element(Element const& o): init(*o.parent)
ElementCopy(o) == o

\* std::vector growth: when the storage is full the elements are copy
\* constructed into the new storage (Element declares no move constructor)
Reallocated(es) == [i \in DOMAIN es |-> ElementCopy(es[i])]

Grown(cap) == IF cap = 0 THEN 1 ELSE 2 * cap

RECURSIVE CapacityFor(_)
\* the capacity after n calls of emplace_back on an empty vector
CapacityFor(n) ==
    IF n = 0 THEN 0
    ELSE IF CapacityFor(n - 1) >= n THEN CapacityFor(n - 1)
    ELSE Grown(CapacityFor(n - 1))

InitParent ==
    /\ underlying = [c \in Cells |-> 0]
    /\ elements = <<>>
    /\ elemType = "int32_t"
    /\ mapElements = <<>>
    /\ NoListeners
    /\ recursiveListenerDisabler = 0
    /\ stack = <<>>
    /\ log = <<>>
    /\ op = [name |-> "none", node |-> Node("A"), entry |-> "", w |-> 0,
             pre |-> 0, how |-> "", ret |-> TRUE]
    /\ overflow = FALSE
    /\ original = [copied |-> FALSE, lists |-> <<>>,
                   constructed |-> {1},
                   parent |-> Constructed([x \in Ids |-> nullptr], 1),
                   elems |-> [c \in ContainerIds |-> <<>>],
                   capacity |-> [c \in ContainerIds |-> 0],
                   moved |-> FALSE]

\* Array<T>::addElement / Map<T>::addElement of a new key, for the parent
\* references: elements.emplace_back(*this, element)
emplaceBackParent(c) ==
    /\ c.g \in original.constructed
    /\ Len(original.elems[c]) < MaxLen
    /\ LET es == original.elems[c]
           full == Len(es) = original.capacity[c]
       IN original' = [original EXCEPT
              !.elems[c] = Append(IF full THEN Reallocated(es) ELSE es, c),
              !.capacity[c] = IF full THEN Grown(@) ELSE @]
    /\ op' = Call("emplace_back", Node(c.o), "", 0)
    /\ UNCHANGED <<store, elemType, listenerLists, recursiveListenerDisabler,
                   stack, log, overflow>>

\* elements.erase(elements.begin() + idx), for the parent references: the
\* later elements are assigned one position down with Element::operator=,
\* which assigns the value and leaves parent alone; the last one is destroyed
eraseParent(c, idx) ==
    /\ c.g \in original.constructed
    /\ idx < Len(original.elems[c])
    /\ original' = [original EXCEPT
           !.elems[c] = SubSeq(@, 1, Len(@) - 1)]
    /\ op' = Call("erase", Node(c.o), "", idx)
    /\ UNCHANGED <<store, elemType, listenerLists, recursiveListenerDisabler,
                   stack, log, overflow>>

\* Array<T>::Array(Array const& o) and Map<T>::Map(Map const& o) of the
\* graph g: elements.emplace_back(*this, elem()) for every element of o
ContainersCopied(es, g, from) ==
    [c \in ContainerIds |->
        IF c.g = g
        THEN [i \in DOMAIN es[[g |-> from, o |-> c.o]] |-> c]
        ELSE es[c]]

\* Record<T>::Record(Record const& o): the second graph is a copy of the
\* first; every Value base is copy constructed, the containers copy their
\* elements, the records run init()
copyConstructRecord ==
    /\ original.constructed = {1}
    /\ original' = [original EXCEPT
           !.constructed = {1, 2},
           !.parent = Constructed(ValueCopied(@, 2), 2),
           !.elems = ContainersCopied(@, 2, 1),
           !.capacity = [c \in ContainerIds |->
                            IF c.g = 2
                            THEN CapacityFor(Len(original.elems[[g |-> 1, o |-> c.o]]))
                            ELSE @[c]]]
    /\ op' = Call("copyConstruct", Node("A"), "", 0)
    /\ UNCHANGED <<store, elemType, listenerLists, recursiveListenerDisabler,
                   stack, log, overflow>>

\* Record<T>::Record(Record&& o): the second graph is move constructed from
\* the first.  The struct is moved member by member: the cells go through
\* Fundamental(Fundamental&&) and Value(Value&&), the containers, which
\* declare no move constructor, are copied; then the records run init()
moveConstructRecord ==
    /\ original.constructed = {1}
    /\ original' = [original EXCEPT
           !.constructed = {1, 2},
           !.parent = Constructed(ValueMoved(@, 2, 1), 2),
           !.elems = ContainersCopied(@, 2, 1),
           !.capacity = [c \in ContainerIds |->
                            IF c.g = 2
                            THEN CapacityFor(Len(original.elems[[g |-> 1, o |-> c.o]]))
                            ELSE @[c]],
           !.moved = TRUE]
    /\ op' = Call("moveConstruct", Node("A"), "", 0)
    /\ UNCHANGED <<store, elemType, listenerLists, recursiveListenerDisabler,
                   stack, log, overflow>>

\* the second graph goes out of scope
destroyRecord ==
    /\ original.constructed = {1, 2}
    /\ original' = [original EXCEPT
           !.constructed = {1},
           !.parent = [x \in Ids |-> IF x.g = 2 THEN nullptr ELSE @[x]],
           !.elems = [c \in ContainerIds |-> IF c.g = 2 THEN <<>> ELSE @[c]],
           !.capacity = [c \in ContainerIds |-> IF c.g = 2 THEN 0 ELSE @[c]]]
    /\ op' = Call("destroy", Node("A"), "", 0)
    /\ UNCHANGED <<store, elemType, listenerLists, recursiveListenerDisabler,
                   stack, log, overflow>>

NextParent ==
    \/ \E c \in ContainerIds : emplaceBackParent(c)
    \/ \E c \in ContainerIds, idx \in 0..(MaxLen - 1) : eraseParent(c, idx)
    \/ copyConstructRecord
    \/ moveConstructRecord
    \/ destroyRecord

SpecParent == InitParent /\ [][NextParent]_vars

\* ---- callbacks that change the list they are called from ---------------------
\* What a callback registered on the cell C does besides reading:
\*   adder    registers one more listener on C (addListener)
\*   dropper  lets go of the context of the listener registered after it
Changers == {"obs", "adder", "dropper"}

\* the lists C can have after construction and at most MaxListeners calls
\* of addListener
ListsOfC ==
    UNION {[1..n -> Changers] : n \in 0..MaxListeners}

InitReentrant ==
    /\ underlying = [c \in Cells |-> 0]
    /\ elements = <<>>
    /\ elemType = "int32_t"
    /\ mapElements = <<>>
    /\ \E l \in ListsOfC :
           /\ valueListeners = [o \in {"C", "F", "B"} |->
                                   IF o = "C" THEN l ELSE <<>>]
           /\ original = [copied |-> FALSE, lists |-> <<>>,
                          capacity |-> CapacityFor(Len(l)),
                          began |-> 0, dangling |-> FALSE,
                          reallocated |-> FALSE]
    /\ childListeners = [o \in Objects |-> <<>>]
    /\ arrayListeners = <<>>
    /\ mapListeners = <<>>
    /\ recursiveListenerDisabler = 0
    /\ stack = <<>>
    /\ log = <<>>
    /\ op = [name |-> "none", node |-> Node("A"), entry |-> "", w |-> 0,
             pre |-> 0, how |-> "", ret |-> TRUE]
    /\ overflow = FALSE

\* C.set(w) up to the loop of callListeners: the unchanged check, the erase
\* of the expired entries, then for (auto& listener : valueListeners) with
\* the end of the range taken once (k)
setReentrant(w) ==
    /\ Idle
    /\ LET l == Erased(valueListeners["C"])
           f == Frame("set", Node("C"), w, "set_cref", "modify", "", 0, TRUE, 0)
       IN IF Unchanged("set_cref", "int32_t", underlying["C"], w)
          THEN /\ stack' = <<>>
               /\ UNCHANGED <<valueListeners, original>>
          ELSE /\ stack' = <<[f EXCEPT !.phase = IF l = <<>> THEN "commit"
                                                ELSE "notify",
                                       !.si = 1, !.li = 1, !.k = Len(l)]>>
               /\ valueListeners' = [valueListeners EXCEPT !["C"] = l]
               /\ original' = [original EXCEPT !.began = Len(l),
                                               !.dangling = FALSE,
                                               !.reallocated = FALSE]
    /\ op' = Call("write", Node("C"), "set_cref", w)
    /\ log' = <<>>
    /\ UNCHANGED <<store, elemType, childListeners, arrayListeners,
                   mapListeners, recursiveListenerDisabler, overflow>>

\* one turn of the loop: listener->invoke(*this, newValue), which calls the
\* lambda if context.lock() succeeds; the callback may call addListener
\* (valueListeners.emplace_back, which moves the entries to new storage when
\* the vector is full) or let the next listener's context expire.  When the
\* storage has moved the loop reads the old storage: this turn is the
\* outcome in which the old storage still yields the entry
invokeListener ==
    /\ Running
    /\ Top.phase = "notify" /\ original.began > 0
    /\ LET f == Top
           l == valueListeners["C"]
           beh == l[f.li]
           full == Len(l) = original.capacity
           adds == beh = "adder" /\ Len(l) < MaxEntries
           drops == beh = "dropper" /\ f.li < Len(l)
       IN /\ log' = IF expired(beh) THEN log
                    ELSE Append(log, Delivered(f, Chain(f)[1]))
          /\ valueListeners' = [valueListeners EXCEPT !["C"] =
                 IF adds THEN Append(l, "obs")
                 ELSE IF drops THEN [l EXCEPT ![f.li + 1] = "expired"]
                 ELSE l]
          /\ original' = [original EXCEPT
                 !.capacity = IF adds /\ full THEN Grown(@) ELSE @,
                 !.reallocated = @ \/ (adds /\ full),
                 !.dangling = @ \/ (adds /\ full /\ f.li < f.k)]
          /\ stack' = <<IF f.li < f.k THEN [f EXCEPT !.li = f.li + 1]
                        ELSE [f EXCEPT !.phase = "commit"]>>
    /\ UNCHANGED <<store, elemType, childListeners, arrayListeners,
                   mapListeners, recursiveListenerDisabler, op, overflow>>

\* one turn of the loop after the storage has moved, in the outcome in which
\* the old storage no longer yields the entry (the moved-from unique_ptr is
\* null, or the memory has been reused): the call ends in a crash
derefDangling ==
    /\ Running
    /\ Top.phase = "notify" /\ original.began > 0
    /\ original.dangling
    /\ stack' = <<>>
    /\ op' = [op EXCEPT !.ret = FALSE, !.how = "crashed"]
    /\ UNCHANGED <<store, elemType, listenerLists, original,
                   recursiveListenerDisabler, log, overflow>>

NextReentrant ==
    \/ \E w \in Val : setReentrant(w)
    \/ invokeListener
    \/ derefDangling
    \/ Commit

SpecReentrant == InitReentrant /\ [][NextReentrant]_vars

\* ---- what a finished top-level call delivered -----------------------------
Returned == Idle /\ op.name = "write"

\* the notifications the top-level call itself delivered to the listener
\* number i of the list kind at the object o
Notified(kind, o, i) ==
    {j \in DOMAIN log : /\ log[j].kind = kind /\ log[j].at = o
                        /\ log[j].lid = i /\ log[j].depth = 1}

Notifications == {j \in DOMAIN log : log[j].kind /= "store"}

\* ---- C1 ---------------------------------------------------------------------
\* C1: a write to a scalar cell of a value equal to the stored one (exactly,
\* or within epsilon for a float), through whichever entry point, invokes no
\* value listener of the cell and no child listener of an ancestor.
C1_UnchangedSkip ==
    (op.name = "write" /\ Scalar(op.node)
        /\ SetSkips(type(op.node), op.pre, op.w))
    => Notifications = {}

\* ---- C2 ---------------------------------------------------------------------
\* C2: when a top-level write of a value w that differs from the stored v
\* (beyond epsilon for a float) has returned, the write has invoked every
\* value listener of the cell exactly once, with w as the new value, and the
\* cell holds w.  Notifications of writes that the listeners made themselves
\* are counted for those writes.
C2_EachListenerOnce ==
    (Returned /\ Scalar(op.node)
        /\ ~SetSkips(type(op.node), op.pre, op.w))
    => /\ \A i \in DOMAIN valueListeners[op.node.obj] :
              /\ Cardinality(Notified("value", op.node.obj, i)) = 1
              /\ \A j \in Notified("value", op.node.obj, i) :
                     log[j].value = op.w /\ log[j].node = op.node
       /\ Stored(op.node) = op.w

\* a changing write to a cell with two value listeners has returned
C2_Witness ==
    /\ Returned /\ Scalar(op.node)
    /\ ~SetSkips(type(op.node), op.pre, op.w)
    /\ Len(valueListeners[op.node.obj]) = 2
    /\ Cardinality(Notifications) >= 2

\* ---- C3 ---------------------------------------------------------------------
Ancestors == {"A", "B"}

\* C3: a change of the leaf cell L (C or F, below B below A) invokes every
\* child listener of every ancestor exactly once, with the operation modify
\* and the path of field names that leads from that ancestor to L:
\* getchild(path) on the ancestor is L, and at A the path of C reads "B/C".
C3_PropagationPath ==
    (op.name = "write" /\ Scalar(op.node)) =>
        /\ \A j \in Notifications :
               (log[j].kind = "child" /\ log[j].depth = 1) =>
                   /\ log[j].opn = "modify"
                   /\ log[j].at \in Ancestors
                   /\ getchild(Node(log[j].at), log[j].path) = op.node
                   /\ (log[j].at = "A" /\ op.node.obj = "C")
                          => toString(log[j].path) = "B/C"
        /\ (Returned /\ Stored(op.node) /= op.pre) =>
               \A o \in Ancestors : \A i \in DOMAIN childListeners[o] :
                   Cardinality(Notified("child", o, i)) = 1

\* C was changed and a child listener of A heard of it
C3_Witness ==
    /\ Returned /\ op.node.obj = "C" /\ Stored(op.node) /= op.pre
    /\ childListeners["A"] /= <<>>
    /\ \E j \in Notifications :
           /\ log[j].kind = "child" /\ log[j].at = "A"
           /\ log[j].path = <<"B", "C">>

\* ---- C4 ---------------------------------------------------------------------
\* C4: the assignment of a different record value to B (a field of A)
\* invokes every child listener of A exactly once, with the path "B" and
\* the operation modify; the writes to B's fields that the copy makes
\* notify nobody.
C4_WholesaleAssignment ==
    (op.name = "write" /\ op.node = Node("B")) =>
        /\ \A j \in Notifications :
               /\ log[j].depth = 1 /\ log[j].node = Node("B")
               /\ (log[j].kind = "child" /\ log[j].at = "A") =>
                      /\ log[j].opn = "modify"
                      /\ toString(log[j].path) = "B"
                      /\ getchild(Node("A"), log[j].path) = Node("B")
        /\ (Returned /\ op.w /= op.pre) =>
               \A i \in DOMAIN childListeners["A"] :
                   Cardinality(Notified("child", "A", i)) = 1

\* B was assigned a record with another C while A and C were listened to,
\* and one notification was delivered
C4_Witness ==
    /\ Returned /\ op.node = Node("B") /\ op.w.C /= op.pre.C
    /\ underlying["C"] = op.w.C
    /\ childListeners["A"] /= <<>> /\ valueListeners["C"] /= <<>>
    /\ Cardinality(Notifications) = 1

\* ---- C5 ---------------------------------------------------------------------
\* C5: a write that a listener makes while it is being invoked is stored but
\* notifies nobody: every notification comes from the outermost write.
C5_NestedWritesSilent ==
    \A j \in Notifications : log[j].depth = 1

\* ---- C6 ---------------------------------------------------------------------
\* the same call entered from the same state of the program
SameCall(f, g) ==
    /\ f.call = g.call /\ f.node = g.node /\ f.how = g.how
    /\ f.new = g.new /\ f.snap = g.snap

\* C6: a top-level write to a cell returns whatever the listeners write in
\* reaction.  The program is deterministic, so a call that is entered again
\* from the state it was first entered from, while it is still in progress,
\* never returns: no such call is reachable.
C6_NoEndlessRecursion ==
    \A i, j \in DOMAIN stack : i < j => ~SameCall(stack[i], stack[j])

\* ---- C7 ---------------------------------------------------------------------
\* the events of one call: those of its depth since it was entered
SameWrite(j, k) ==
    log[j].start = log[k].start /\ log[j].depth = log[k].depth

\* C7 as stated: whenever a listener is invoked for a modify of the cell c
\* from v to w, reading c still yields v, the argument carries w, and w is
\* stored only after all listeners of the chain have returned.
C7_NotifyBeforeWrite ==
    \A j \in Notifications : log[j].opn = "modify" =>
        /\ log[j].seen = log[j].old
        /\ \A k \in DOMAIN log :
               (log[k].kind = "store" /\ SameWrite(j, k)) =>
                   j < k /\ log[k].value = log[j].value

\* a write to the cell of notification j that a listener made, and that
\* was stored, after the write of j was entered and before j was delivered
WrittenMeanwhile(j) ==
    \E k \in (log[j].start + 1)..(j - 1) :
        /\ log[k].kind = "store" /\ log[k].node = log[j].node
        /\ log[k].depth > log[j].depth

\* C7, amended: whenever a listener is invoked for a modify of the cell c
\* from v to w, the argument carries w and the write stores w only after
\* all listeners of its chain have returned; reading c yields v unless a
\* listener invoked earlier for this write has itself written to c.
C7_NotifyBeforeOwnWrite ==
    \A j \in Notifications : log[j].opn = "modify" =>
        /\ log[j].seen = log[j].old \/ WrittenMeanwhile(j)
        /\ \A k \in DOMAIN log :
               (log[k].kind = "store" /\ SameWrite(j, k)) =>
                   j < k /\ log[k].value = log[j].value

\* a write has returned during which one listener read the old value and
\* another one, invoked after a listener had written, did not
C7_Witness ==
    /\ Returned /\ Stored(op.node) = op.w
    /\ \E j \in Notifications :
           log[j].seen = log[j].old /\ log[j].value /= log[j].old
    /\ \E j \in Notifications :
           log[j].seen /= log[j].old /\ WrittenMeanwhile(j)

\* ---- C8 ---------------------------------------------------------------------
\* the notifications of the operation opn that the top-level call delivered
Heard(opn) == {j \in Notifications : log[j].opn = opn /\ log[j].depth = 1}

\* C8: removeElement(k) on an array of n elements invokes the array
\* listeners and the child listeners of the array and of its ancestors with
\* the operation remove, the value of the element at k and the index k (a
\* path that ends in the decimal string of k), while the array still holds
\* all n elements.
C8_RemoveNotification ==
    op.name = "removeElement" =>
        /\ \A j \in Heard("remove") :
               /\ log[j].value = op.pre[op.w + 1]
               /\ log[j].seen = op.pre
               /\ log[j].kind = "array" => log[j].idx = op.w
               /\ log[j].kind = "child" =>
                      log[j].path[Len(log[j].path)] = to_string(op.w)
        /\ Idle =>
               /\ \A i \in DOMAIN arrayListeners :
                      Cardinality(Notified("array", "arr", i)) = 1
               /\ \A o \in {"arr", "A"} : \A i \in DOMAIN childListeners[o] :
                      Cardinality(Notified("child", o, i) \cap Heard("remove")) = 1

\* ---- C9 ---------------------------------------------------------------------
\* the names of the children of a node, in enumeration order
Names(n) == [i \in DOMAIN Fields(n) |-> name(Fields(n)[i])]

\* s without its element at index k
Without(s, k) == SubSeq(s, 1, k) \o SubSeq(s, k + 2, Len(s))

\* C9: the children of the array are always named "0", "1", ..., "size-1" in
\* enumeration order, and removeElement(k) leaves the other values in their
\* order, each later one at the index below its former one.
C9_Reindexing ==
    /\ Names(Node("arr")) = [i \in 1..Len(elements) |-> to_string(i - 1)]
    /\ (Idle /\ op.name = "removeElement") => elements = Without(op.pre, op.w)

\* ---- C10 --------------------------------------------------------------------
\* C10: Array::addElement and Map::addElement of a new key invoke all
\* listeners (the container's and the child listeners of the container and
\* of its ancestors) with the operation add before the element is stored:
\* when they are invoked the container is as it was before the call, the
\* index is its size (for a map the key is the new key, which no child has
\* yet), and the element is stored after the last of them has returned.
C10_AddBeforeInsert ==
    op.name \in {"addElement", "mapAddElement"} =>
        /\ \A j \in Heard("add") :
               /\ log[j].value = op.w
               /\ log[j].seen = op.pre
               /\ log[j].parent = op.node.obj
               /\ log[j].kind = "array" => log[j].idx = Len(op.pre)
               /\ (log[j].kind = "child" /\ op.node.obj = "arr") =>
                      log[j].path[Len(log[j].path)] = to_string(Len(op.pre))
               /\ op.node.obj = "map" =>
                      /\ log[j].key = op.entry
                      /\ \A i \in DOMAIN op.pre : op.pre[i].fieldName /= op.entry
                      /\ log[j].kind = "child" =>
                             log[j].path[Len(log[j].path)] = op.entry
               /\ \A k \in DOMAIN log : log[k].kind = "store" => j < k
        /\ (Idle /\ Len(Stored(op.node)) > Len(op.pre)) =>
               /\ op.node.obj = "arr" => elements = Append(op.pre, op.w)
               /\ op.node.obj = "map" =>
                      mapElements = Append(op.pre, [fieldName |-> op.entry,
                                                    v |-> op.w])
               /\ op.node.obj = "arr" => \A i \in DOMAIN arrayListeners :
                      Cardinality(Notified("array", "arr", i)) = 1
               /\ op.node.obj = "map" => \A i \in DOMAIN mapListeners :
                      Cardinality(Notified("map", "map", i)) = 1
               /\ \A o \in {op.node.obj, "A"} :
                      \A i \in DOMAIN childListeners[o] :
                          Cardinality(Notified("child", o, i)) = 1

\* a second element was added to the array while an array listener and a
\* child listener of A were registered
C10_Witness ==
    /\ Idle /\ op.name = "addElement" /\ Len(op.pre) = 1
    /\ Len(elements) = 2
    /\ arrayListeners /= <<>> /\ childListeners["A"] /= <<>>
    /\ Cardinality(Heard("add")) = 2

\* ---- C11 --------------------------------------------------------------------
\* the keys of a map value, in iteration order
KeysOf(m) == [i \in DOMAIN m |-> m[i].fieldName]

\* the position of the key in a map value, 0 if it has none
At(m, key) ==
    LET hits == {i \in DOMAIN m : m[i].fieldName = key}
    IN IF hits = {} THEN 0 ELSE CHOOSE i \in hits : \A j \in hits : i <= j

\* what Map::addElement does to the keys and to the map listeners: a new
\* key is appended with one add notification to each map listener, a key the
\* map holds keeps its position and no add notification is delivered
UpsertShape ==
    IF At(op.pre, op.entry) = 0
    THEN /\ mapElements = Append(op.pre, [fieldName |-> op.entry, v |-> op.w])
         /\ \A i \in DOMAIN mapListeners :
                Cardinality(Notified("map", "map", i) \cap Heard("add")) = 1
    ELSE /\ KeysOf(mapElements) = KeysOf(op.pre)
         /\ \A i \in DOMAIN mapElements :
                i /= At(op.pre, op.entry) => mapElements[i] = op.pre[i]
         /\ \A j \in Notifications :
                log[j].opn /= "add" /\ log[j].kind /= "map"

C12_SilentMapUpdate ==
    (op.name = "mapAddElement" /\ At(op.pre, op.entry) > 0
        /\ op.pre[At(op.pre, op.entry)].v /= op.w)
    => Notifications = {}

\* the calls that add to, assign in or remove from the map
MapRemovals == {"mapRemoveElement", "mapRemoveChild"}
MapCalls == {"mapAddElement", "mapAssignChild"} \cup MapRemovals

\* s in its order without the keys equal to key
Remaining(s, key) == LET Keep(k) == k /= key IN SelectSeq(s, Keep)

\* C13: after every addElement, removeElement, assignChild and removeChild
\* on a map, no two elements have the same key; a removal leaves the other
\* keys in their order, and every other call leaves the keys as they were or,
\* for a key the map did not hold, appends it: so the keys enumerate in the
\* order of their insertion.
C13_MapInvariant ==
    (Idle /\ op.name \in MapCalls) =>
        LET before == KeysOf(op.pre)
            after == KeysOf(mapElements)
            held == \E i \in DOMAIN before : before[i] = op.entry
        IN /\ \A i, j \in DOMAIN after : after[i] = after[j] => i = j
           /\ after = IF op.name \in MapRemovals
                      THEN Remaining(before, op.entry)
                      ELSE IF held \/ ~op.ret THEN before
                      ELSE Append(before, op.entry)

\* C13 happens: the first of three keys was removed, the two others remain
C13_Witness ==
    /\ Idle /\ op.name = "mapRemoveElement"
    /\ Len(op.pre) = 3 /\ op.pre[1].fieldName = op.entry
    /\ KeysOf(mapElements) = <<op.pre[2].fieldName, op.pre[3].fieldName>>

Nodes ==
    {Node(o) : o \in Objects \cup Cells}
        \cup {Element("arr", i - 1) : i \in DOMAIN elements}
        \cup {Element("map", i - 1) : i \in DOMAIN mapElements}

\* the children of n called nm
Named(n, nm) == {Fields(n)[i] : i \in {j \in DOMAIN Fields(n) : name(Fields(n)[j]) = nm}}

\* the ways to follow id from n: each segment names a child of the node
\* reached so far, and all nodes reached but the last are structured
Resolutions(n, id) ==
    {q \in [1..Len(id) -> Nodes] :
        \A i \in 1..Len(id) :
            /\ q[i] \in Named(IF i = 1 THEN n ELSE q[i - 1], id[i])
            /\ i < Len(id) => isStruct(q[i])}

\* C15: getchild on a structured node returns the node itself for the empty
\* ID, otherwise the node reached segment by segment, and Invalid exactly
\* when a segment names no child of the node reached so far or a segment
\* before the last resolves to a value that is not structured.
C15_Getchild ==
    op.name = "getchild" =>
        /\ op.entry = <<>> => op.ret = op.node
        /\ op.entry /= <<>> =>
               /\ op.ret = Invalid <=> Resolutions(op.node, op.entry) = {}
               /\ \A q \in Resolutions(op.node, op.entry) :
                      op.ret = q[Len(op.entry)]

\* C15 happens: a lookup of two segments stopped at a scalar that the first
\* segment names
C15_Witness ==
    /\ op.name = "getchild" /\ Len(op.entry) = 2
    /\ op.ret = Invalid /\ Scalar(Child(op.node, op.entry[1]))

\* C16: once the graph is a copy, no write to a cell of the copy and no
\* addElement on its array or its map invokes a listener: those registered
\* on the original graph are not in the lists of the copy.
C16_CopyExcludesListeners ==
    original.copied => Notifications = {}

\* C16 happens: the original had a value listener at C and a child listener
\* at A, and a write to C in the copy has changed the value and returned
C16_Witness ==
    /\ original.copied /\ Idle
    /\ original.lists[1]["C"] /= <<>> /\ original.lists[2]["A"] /= <<>>
    /\ op.name = "write" /\ op.node = Node("C") /\ op.pre /= op.w
    /\ underlying["C"] = op.w

\* the lists a write to the cell C notifies, in the order of the chain
NotifiedLists == <<<<"value", "C">>, <<"child", "B">>, <<"child", "A">>>>

\* the notifications the top-level call itself delivered from the list l
From(l) == {j \in Notifications :
                log[j].kind = l[1] /\ log[j].at = l[2] /\ log[j].depth = 1}

HeardSet(n, w) ==
    /\ \A i \in DOMAIN valueListeners[n.obj] :
           Cardinality(Notified("value", n.obj, i)) = 1
    /\ \A o \in {"A", "B"} : \A i \in DOMAIN childListeners[o] :
           Cardinality(Notified("child", o, i)) = 1
    /\ \A j \in Notifications : log[j].value = w

C20_RecordShape ==
    /\ op.name = "assignChild" =>
           LET fld == Child(op.node, op.entry)
           IN /\ op.ret <=> (fld /= Invalid /\ type(fld) = op.how)
              /\ ~op.ret => log = <<>> /\ Idle /\ Stored(op.node) = op.pre
    /\ op.name = "removeChild" =>
           ~op.ret /\ log = <<>> /\ Idle /\ Stored(op.node) = op.pre
    /\ \A o \in Records : Names(Node(o)) = FieldNames(o)

\* C20 happens: a value of the type of C was assigned to a field that B does
\* not have
C20_Witness ==
    /\ op.name = "assignChild" /\ op.entry = "x" /\ op.how = "int32_t"
    /\ op.w /= underlying["C"] /\ ~op.ret

\* ---- C21 --------------------------------------------------------------------
RECURSIVE decimal(_)
\* the decimal spelling of n, as a sequence of characters
decimal(n) ==
    IF n < 10 THEN <<Digit[n + 1]>>
    ELSE decimal(n \div 10) \o <<Digit[(n % 10) + 1]>>

\* the add notifications the listener number lid of the list kind at the
\* object at has received, in their order
AddsOf(kind, at, lid) ==
    LET Mine(e) == e.kind = kind /\ e.at = at /\ e.lid = lid /\ e.opn = "add"
    IN SelectSeq(log, Mine)

\* C21: assignChild(decimal(i), v) on an array of n <= i elements, v of the
\* element type, returns true; when it has returned the first n elements are
\* as before, the elements n..i-1 are default-constructed, the element i is
\* v, and every array listener and every child listener of the array and of
\* its ancestors has received i-n+1 add notifications, with the indices
\* n, n+1, ..., i in that order.
C21_AssignChildBeyond ==
    \A i \in 0..MaxEntries :
        (op.name = "arrayAssignChild" /\ op.how = elemType
            /\ op.entry = decimal(i) /\ i >= Len(op.pre)) =>
            LET n == Len(op.pre)
                indices == [k \in 1..(i - n + 1) |-> n + k - 1]
            IN /\ op.ret
               /\ Idle =>
                    /\ Len(elements) = i + 1
                    /\ SubSeq(elements, 1, n) = op.pre
                    /\ \A k \in (n + 1)..i : elements[k] = 0
                    /\ elements[i + 1] = op.w
                    /\ \A l \in DOMAIN arrayListeners :
                           [k \in DOMAIN AddsOf("array", "arr", l) |->
                               AddsOf("array", "arr", l)[k].idx] = indices
                    /\ \A o \in {"arr", "A"} : \A l \in DOMAIN childListeners[o] :
                           [k \in DOMAIN AddsOf("child", o, l) |->
                               AddsOf("child", o, l)[k].path] =
                           [k \in DOMAIN indices |->
                               (IF o = "A" THEN <<"arr">> ELSE <<>>)
                                   \o <<to_string(indices[k])>>]
                    /\ \A j \in Notifications : log[j].opn = "add"

\* C21 happens: assignChild("2", v) on an empty array has returned, with an
\* array listener and a child listener of A registered
C21_Witness ==
    /\ Idle /\ op.name = "arrayAssignChild" /\ op.entry = <<"2">>
    /\ op.pre = <<>> /\ elements = <<0, 0, op.w>>
    /\ arrayListeners /= <<>> /\ childListeners["A"] /= <<>>

\* ---- C22 --------------------------------------------------------------------
\* the names that are the decimal spelling of a non-negative integer
Spelled(nm) == \E i \in 0..(10 * MaxEntries) : nm = decimal(i)

\* C22: assignChild and removeChild on the array return false, leave the
\* elements as they were and notify nobody when the name is not the decimal
\* spelling of a non-negative integer, when the value is not of the element
\* type (assignChild), and when the index is not below the size
\* (removeChild).
C22_ArrayNameValidation ==
    (/\ Idle
     /\ \/ /\ op.name \in {"arrayAssignChild", "arrayRemoveChild"}
           /\ ~Spelled(op.entry)
        \/ op.name = "arrayAssignChild" /\ op.how /= elemType
        \/ /\ op.name = "arrayRemoveChild" /\ Spelled(op.entry)
           /\ stoi(op.entry).value >= Len(op.pre))
    => ~op.ret /\ elements = op.pre /\ log = <<>>

KeySet(m) == {m[i].fieldName : i \in DOMAIN m}

\* C24: a == b for two maps of the same element type is true exactly when
\* they have the same size, the same set of keys and equal elements under
\* every key, whichever listeners are registered.
C24_MapEquality ==
    op.name = "mapEqual" =>
        (op.ret <=>
            /\ Len(op.pre) = Len(op.w)
            /\ KeySet(op.pre) = KeySet(op.w)
            /\ \A key \in KeySet(op.pre) :
                   op.pre[At(op.pre, key)].v = op.w[At(op.w, key)].v)

\* ---- C25 --------------------------------------------------------------------
\* the listeners a write to the cell c notifies, in their order: the value
\* listeners of the cell, then the child listeners of B, then those of A
Audience(c) ==
    [i \in DOMAIN valueListeners[c] |-> <<"value", c, i>>]
        \o [i \in DOMAIN childListeners["B"] |-> <<"child", "B", i>>]
        \o [i \in DOMAIN childListeners["A"] |-> <<"child", "A", i>>]

\* the notifications of the log, each as the listener it went to
Told ==
    LET Note(e) == e.kind \notin {"store", "lambda"}
        notes == SelectSeq(log, Note)
    IN [j \in DOMAIN notes |-> <<notes[j].kind, notes[j].at, notes[j].lid>>]

\* C25: visit with a visitor that takes a mutable scalar runs the visitor on
\* a copy, the cell still holding its value v, and then behaves as set does
\* for the value the visitor left in the copy: if that value is unchanged
\* from v (equal, or within epsilon for a float) the cell keeps v and nobody
\* is notified, otherwise the cell holds the new value and the value
\* listeners of the cell and the child listeners of its ancestors have been
\* notified once each, in the same order and with the same value as by set.
C25_VisitIsSet ==
    (op.name = "visitMutable" \/ (op.name = "write" /\ op.entry = "set_cref")) =>
        LET c == op.node.obj
            skip == SetSkips(type(op.node), op.pre, op.w)
        IN /\ \A j \in DOMAIN log :
                  log[j].kind = "lambda" => log[j].seen = op.pre
           /\ \A j \in DOMAIN log :
                  log[j].kind \in {"value", "child"} =>
                      log[j].value = op.w /\ log[j].opn = "modify"
           /\ Idle =>
                  /\ underlying[c] = IF skip THEN op.pre ELSE op.w
                  /\ Told = IF skip THEN <<>> ELSE Audience(c)

\* C25 happens: a visitor changed the copy of a cell with a value listener
\* and a child listener above it, and the visit has returned
C25_Witness ==
    /\ Idle /\ op.name = "visitMutable" /\ op.w /= op.pre
    /\ underlying[op.node.obj] = op.w
    /\ Len(Told) = 2 /\ Told[1][1] = "value" /\ Told[2][1] = "child"

\* ---- C26 --------------------------------------------------------------------
\* the direct container of the value a notification is about
Container(e) == IF e.opn = "modify" THEN Parent(e.node) ELSE e.node.obj

\* the notifications to child listeners
ChildNotes == {j \in DOMAIN log : log[j].kind = "child"}

\* C26: the child listeners of all ancestors that one change notifies receive
\* the same operation, the same new value and the same originating
\* container, which is the direct container of the changed value; the path
\* handed to the listeners of that container is the name of the changed
\* value, and the path handed to the listeners of an object's parent is the
\* path handed to those of the object with the name of the object put in
\* front.
C26_SameAlongChain ==
    \A j \in ChildNotes :
        /\ log[j].parent = Container(log[j])
        /\ log[j].at = log[j].parent => Len(log[j].path) = 1
        /\ \A k \in ChildNotes : SameWrite(j, k) =>
               /\ log[k].opn = log[j].opn
               /\ log[k].value = log[j].value
               /\ log[k].parent = log[j].parent
               /\ log[k].at = Parent(Node(log[j].at)) =>
                      log[k].path = <<log[j].at>> \o log[j].path

\* C26 happens: one write to C has notified a child listener of B with the
\* path C and then a child listener of A with the path B/C, both with B as
\* the originating container
C26_Witness ==
    \E j, k \in ChildNotes :
        /\ SameWrite(j, k) /\ log[j].at = "B" /\ log[k].at = "A"
        /\ log[j].path = <<"C">> /\ log[k].path = <<"B", "C">>
        /\ log[j].parent = "B" /\ log[k].parent = "B"
        /\ log[j].value = log[k].value

\* ---- C27 --------------------------------------------------------------------
\* fromString(toString(p)) has been computed for the ID p
RoundTripOfID == op.how = "ID" /\ op.name = "fromString"

\* C27 as stated: for every ID p whose segments are all non-empty,
\* fromString(p.toString()) is p.
C27_SegmentsRoundTrip ==
    (RoundTripOfID /\ \A i \in DOMAIN op.pre : op.pre[i] /= <<>>) =>
        op.ret = op.pre

\* C27: for every ID p whose segments are all non-empty and hold no slash,
\* fromString(p.toString()) is p.
C27_SlashFreeRoundTrip ==
    (RoundTripOfID /\ \A i \in DOMAIN op.pre :
         op.pre[i] /= <<>> /\ FirstSlash(op.pre[i]) = 0) =>
        op.ret = op.pre

\* C27 happens: an ID of two segments has gone through toString and
\* fromString and is itself again
C27_Witness ==
    /\ RoundTripOfID /\ Len(op.pre) = 2
    /\ \A i \in DOMAIN op.pre : op.pre[i] /= <<>> /\ FirstSlash(op.pre[i]) = 0
    /\ op.entry = <<"a", "/", "a">> /\ op.ret = op.pre

\* ---- C28 --------------------------------------------------------------------
\* a string without a leading slash, a trailing slash or two adjacent ones
Tidy(str) ==
    /\ str /= <<>> => str[1] /= "/" /\ str[Len(str)] /= "/"
    /\ \A i \in 1..(Len(str) - 1) : ~(str[i] = "/" /\ str[i + 1] = "/")

\* C28: for every string s with no leading slash, no trailing slash and no
\* two adjacent slashes, the empty string included,
\* fromString(s).toString() is s.
C28_StringRoundTrip ==
    (op.how = "string" /\ op.name = "toString" /\ Tidy(op.pre)) =>
        op.ret = op.pre

\* C28 happens: the string a/a has gone through fromString, which split it
\* in two, and toString, and is itself again
C28_Witness ==
    /\ op.how = "string" /\ op.name = "toString"
    /\ op.pre = <<"a", "/", "a">> /\ op.entry = <<<<"a">>, <<"a">>>>
    /\ op.ret = op.pre

\* ---- C29 --------------------------------------------------------------------
\* a == b for two arrays or two maps
ContainerEqual(o, a, b) == IF o = "arr" THEN arrayEqual(a, b) ELSE mapEqual(a, b)

\* a copy constructed from a container compares equal to it; after an
\* assignment from the other container has returned, the container compares
\* equal to the other one, which is as it was before
EqualAfterCopy ==
    LET o == op.node.obj
    IN /\ op.name = "copyConstruct" =>
              ContainerEqual(o, original.other[o], Stored(op.node))
       /\ (Idle /\ op.name = "assign" /\ op.how = "other") =>
              /\ op.ret
              /\ ContainerEqual(o, Stored(op.node), original.other[o])
              /\ original.other[o] = op.pre

\* a step that changes the elements of a container leaves those of the other
\* container alone, and the other way round
Independent ==
    /\ <<elements, mapElements>>' /= <<elements, mapElements>> =>
           original.other' = original.other
    /\ original.other' /= original.other => UNCHANGED <<elements, mapElements>>

\* C29: for arrays and maps a and b of the same type (two objects), a copy
\* constructed from a compares equal to a; after b = a or b.assign(a),
\* b == a holds and a is unchanged; and no later change of one of the two
\* changes the other.
C29_CopyAndAssign == []EqualAfterCopy /\ [][Independent]_vars

\* C29 happens: the array held other elements than its copy when the copy
\* was assigned to it; its listener heard the removal, and the two are equal
C29_Witness ==
    /\ Idle /\ op.name = "assign" /\ op.how = "other" /\ op.node.obj = "arr"
    /\ Len(elements) = 2 /\ elements = original.other["arr"]
    /\ \E j \in DOMAIN log : log[j].opn = "remove" /\ log[j].value /= elements[1]

RECURSIVE Level(_, _)
\* how many parent links lead from the node n up to the object o
Level(n, o) ==
    IF Parent(n) = o THEN 1
    ELSE IF Parent(n) = "null" THEN 0
    ELSE 1 + Level(Node(Parent(n)), o)

\* the place of the notification j in the order of its write: 0 for a value
\* listener of the changed cell, 1 for a child listener of the parent, 2 for
\* one of the grandparent
Rank(j) ==
    IF log[j].kind = "value" THEN 0 ELSE Level(log[j].node, log[j].at)

\* the object d parent links above the cell n
RECURSIVE Up(_, _)
Up(n, d) == IF d = 1 THEN Parent(n) ELSE Up(Node(Parent(n)), d - 1)

\* C31: the notifications of one write to a scalar cell are delivered in
\* the order: the value listeners of the cell, then the child listeners of
\* its parent, then those of the grandparent, up to the root; within one
\* list in the order of registration; nobody is invoked twice for the write,
\* and when the write has returned no listener of the cell or of an
\* ancestor has been left out.
C31_NotificationOrder ==
    (op.name = "write" /\ Scalar(op.node)) =>
        /\ \A j, k \in Notifications : (j < k /\ SameWrite(j, k)) =>
               /\ log[j].node = log[k].node
               /\ log[j].kind = "value" => log[j].at = log[j].node.obj
               /\ log[j].kind /= "value" =>
                      Up(log[j].node, Rank(j)) = log[j].at
               /\ \/ Rank(j) < Rank(k)
                  \/ Rank(j) = Rank(k) /\ log[j].lid < log[k].lid
        /\ (Returned /\ ~SetSkips(type(op.node), op.pre, op.w)) =>
               /\ \A i \in DOMAIN valueListeners[op.node.obj] :
                      Notified("value", op.node.obj, i) /= {}
               /\ \A d \in 1..2 : \A i \in DOMAIN childListeners[Up(op.node, d)] :
                      Notified("child", Up(op.node, d), i) /= {}

\* a write has returned that notified a child listener of B and then a
\* child listener of A
C31_Witness ==
    /\ Returned /\ Scalar(op.node)
    /\ \E j, k \in Notifications :
           /\ j < k /\ log[j].depth = 1 /\ log[k].depth = 1
           /\ log[j].kind = "child" /\ log[j].at = "B"
           /\ log[k].kind = "child" /\ log[k].at = "A"

\* ---- C32 --------------------------------------------------------------------
\* the writes that are between their increment of the guard and the end of
\* their scope
Raised == {d \in DOMAIN stack : stack[d].phase \in {"store", "copy"}}

\* C32: recursiveListenerDisabler counts the writes that are at their
\* storage update: it is 0 whenever no call is in progress, also after a
\* call that ended with an exception thrown by the assignment, and every
\* store happens with the guard raised.
C32_GuardBalance ==
    /\ ~overflow => recursiveListenerDisabler = Cardinality(Raised)
    /\ Idle => recursiveListenerDisabler = 0
    /\ \A j \in DOMAIN log :
           log[j].kind = "store" => log[j].guard >= 1

\* the assignment of a field threw while the guard was raised twice, by the
\* write to the record and by the write to the field, and the call is over
C32_Witness ==
    /\ Idle /\ op.name = "write" /\ op.how = "thrown"
    /\ op.node = Node("B")
    /\ recursiveListenerDisabler = 0

\* ---- C33 --------------------------------------------------------------------
\* the record that embeds the object x as a field
Embedding(x) ==
    IF \E r \in Ids : x \in Embedded(r)
    THEN CHOOSE r \in Ids : x \in Embedded(r)
    ELSE nullptr

ParentsRight ==
    /\ \A x \in Ids : (x.g \in original.constructed /\ x.o /= "A") =>
           original.parent[x] = Embedding(x)
    /\ \A c \in ContainerIds : c.g \in original.constructed =>
           \A i \in DOMAIN original.elems[c] : original.elems[c][i] = c

\* C33: in every reachable state every field of a record has the record
\* that embeds it as its parent, and every element of an array or a map has
\* that container as its parent: after the storage has grown, after a
\* removal has shifted elements, and in a copy, whose children refer to the
\* copy.
C33_ParentInvariant == ParentsRight

\* the same for the states that are reached without the move constructor
C33_ParentsUnlessMoved == ~original.moved => ParentsRight

\* ---- C34 --------------------------------------------------------------------
\* C34: removeElement(k) on an array, for any k and any values of the later
\* elements, delivers only notifications of the operation remove: one to
\* every array listener and to every child listener of the array and of its
\* ancestors, none of the operation modify and none to a value listener for
\* the elements that are shifted down.
C34_RemoveOnly ==
    op.name = "removeElement" =>
        /\ \A j \in Notifications :
               log[j].opn = "remove" /\ log[j].kind \in {"array", "child"}
        /\ Idle =>
               /\ \A i \in DOMAIN arrayListeners :
                      Cardinality({j \in Notifications :
                          log[j].kind = "array" /\ log[j].lid = i}) = 1
               /\ \A o \in {"arr", "A"} : \A i \in DOMAIN childListeners[o] :
                      Cardinality({j \in Notifications :
                          /\ log[j].kind = "child" /\ log[j].at = o
                          /\ log[j].lid = i}) = 1

\* ---- C35 --------------------------------------------------------------------
\* C35: the assignment of a record value to A, which holds the array arr and
\* the map map, delivers no notification of the operation add or remove to
\* any listener: while the guard is raised the containers that are
\* overwritten are silent, and a notification of the assignment is a modify
\* for the record.
C35_GuardCoversContainers ==
    (op.name = "write" /\ op.node = Node("A")) =>
        \A j \in Notifications :
            /\ log[j].opn \notin {"add", "remove"}
            /\ log[j].guard > 0 => log[j].kind \notin {"array", "map"}
            /\ log[j].opn = "modify" /\ log[j].node = Node("A")

\* ---- C36 --------------------------------------------------------------------
\* C36: the assignment of an array or a map to itself, c = c or
\* c.assign(c), returns true and leaves c with the elements (and keys) it
\* had before, in their order.
C36_SelfAssignment ==
    (Idle /\ op.name = "assign" /\ op.how = "self") =>
        op.ret /\ Stored(op.node) = op.pre

\* ---- C37 --------------------------------------------------------------------
\* how often the listener number i of C was invoked by the current write
Invoked(i) == Cardinality(Notified("value", "C", i))

ReentrantRight ==
    (Idle /\ op.name = "write" /\ op.w /= op.pre) =>
        \A i \in 1..original.began :
            IF expired(valueListeners["C"][i])
            THEN Invoked(i) = 0
            ELSE Invoked(i) = 1

\* C37: when a callback, invoked during a notification of the cell C,
\* registers a listener on C or makes a listener of C expire, the
\* notification still invokes exactly once every listener that was
\* registered when it began and has not been removed, and never a listener
\* that has been removed.
C37_ReentrantListChanges == ReentrantRight

\* the same for the notifications during which the listener storage did
\* not move
C37_UnlessReallocated == ~original.reallocated => ReentrantRight

\* ---- C38 --------------------------------------------------------------------
\* the notifications delivered to the value listeners of the cell n during
\* the current top-level call
ToValueListeners(n) ==
    {j \in Notifications : log[j].kind = "value" /\ log[j].node = n}

\* C38: when a top-level write to the cell c has returned, whatever the
\* listeners wrote to c meanwhile, c holds the new value that the last
\* notification delivered to a value listener of c carried.
C38_LastNotifiedIsStored ==
    (Returned /\ Scalar(op.node) /\ ToValueListeners(op.node) /= {}) =>
        LET last == CHOOSE j \in ToValueListeners(op.node) :
                        \A k \in ToValueListeners(op.node) : k <= j
        IN log[last].value = Stored(op.node)

====
